---- MODULE Spec2Model ----
(***************************************************************************)
(* Task store and task manager of the coding-agent service.                *)
(*                                                                         *)
(* The store is the Redis keyspace "task:<id>" (one serialized Task per    *)
(* key, with a per-key expiry) plus the set "tasks:all" of task ids.       *)
(* TaskManager reads a record, changes the deserialized copy and writes    *)
(* the whole record back.  Callers see what each call returns and may use  *)
(* the helpers of the Task object they were handed.  On top of the manager *)
(* are the API handlers (listing, retry, health) and one SSE connection,   *)
(* whose event generator polls the store and yields events.                *)
(*                                                                         *)
(* Optional values (Python None or a value) are sequences of length 0 / 1. *)
(* Progress is counted in tenths (0.4 is 4, 1.0 is 10).  Timestamps are    *)
(* seconds on the wall clock, which advances in steps of ClockStep.        *)
(***************************************************************************)
EXTENDS Integers, Sequences, FiniteSets, TLC

\* ------------------------------------------------------------------ bounds
MaxTasks == 2
MaxTicks == 2
MaxLog == 2
TicksPerTTL == 2
MaxPolls == 2

\* --------------------------------------------------------------- constants
TTL == 86400
SecondsPerDay == 86400
SecondsPerHour == 3600
ProgressOne == 10

ClockStep == TTL \div TicksPerTTL
Epoch == ClockStep
MaxNow == Epoch + MaxTicks * ClockStep

None == <<>>
Some(x) == <<x>>

Ids == 1..MaxTasks

\* TaskStatus
PENDING == "pending"
RUNNING == "running"
REVIEWING == "reviewing"
COMPLETED == "completed"
FAILED == "failed"
CANCELLED == "cancelled"
TaskStatus == {PENDING, RUNNING, REVIEWING, COMPLETED, FAILED, CANCELLED}
ActiveStatuses == {PENDING, RUNNING, REVIEWING}
TerminalStatuses == {COMPLETED, FAILED, CANCELLED}

\* TaskType
CODE_AGENT == "code-agent"
REVIEWER == "reviewer"

\* Python truthiness of an optional str / int / dict argument
TruthyStr(o) == o # None /\ o[1] # ""
TruthyInt(o) == o # None /\ o[1] # 0
TruthyDict(o) == o # None /\ DOMAIN o[1] # {}

\* ------------------------------------------------------------- Task record
\* is_active without the reviewing status
is_active_NoReviewing(task) == task.status \in {PENDING, RUNNING}

\* Task.is_active
is_active(task) == task.status \in ActiveStatuses

\* strftime("%H:%M:%S") of a timestamp: the time of day
HMS(t) == t % SecondsPerDay

\* f"[{timestamp}] {message}"
LogLine(t, message) == <<HMS(t), message>>

\* add_log that drops an empty message
add_log_SkipEmpty(task, message, t) ==
    IF message = "" THEN [task EXCEPT !.updated_at = t]
    ELSE [task EXCEPT !.logs = Append(@, LogLine(t, message)), !.updated_at = t]

\* Task.add_log
add_log(task, message, t) ==
    [task EXCEPT !.logs = Append(@, LogLine(t, message)), !.updated_at = t]

MsgStarted == "task started"
MsgCancelled == "task cancelled"

\* Task.mark_started
mark_started(task, t) ==
    add_log([task EXCEPT !.status = RUNNING, !.started_at = Some(t), !.updated_at = t],
            MsgStarted, t)

\* Task.mark_cancelled
mark_cancelled(task, t) ==
    add_log([task EXCEPT !.status = CANCELLED, !.completed_at = Some(t), !.updated_at = t],
            MsgCancelled, t)

\* f"agent/issue-{issue_number}", for the issue numbers of the requests below
IssueBranch(n) ==
    CASE n = 0 -> "agent/issue-0"
      [] n = 42 -> "agent/issue-42"
      [] OTHER -> "agent/issue-n"

\* branch_name of TaskManager.create:
\* request.branch_name or (f"agent/issue-{n}" if request.issue_number else None)
BranchFor(request) ==
    IF TruthyStr(request.branch_name) THEN request.branch_name
    ELSE IF TruthyInt(request.issue_number)
         THEN Some(IssueBranch(request.issue_number[1]))
         ELSE None

\* Task(...) as built by TaskManager.create
NewTask(task_id, request, t) ==
    [id |-> task_id,
     type |-> request.type,
     status |-> PENDING,
     issue_number |-> request.issue_number,
     pr_number |-> request.pr_number,
     branch_name |-> BranchFor(request),
     max_iterations |-> request.max_iterations,
     progress |-> 0,
     current_step |-> "",
     iteration |-> 1,
     logs |-> <<>>,
     files_changed |-> <<>>,
     requirements |-> None,
     implementation_plan |-> None,
     result |-> None,
     error |-> None,
     created_at |-> t,
     updated_at |-> t,
     started_at |-> None,
     completed_at |-> None]

Min(a, b) == IF a < b THEN a ELSE b
Max(a, b) == IF a > b THEN a ELSE b

\* max(0.0, min(1.0, progress))
Clamp(p) == Max(0, Min(ProgressOne, p))

\* the status branch forcing full progress on every terminal status
SetStatus_AllFull(task, status, t) ==
    LET s == [task EXCEPT !.status = status]
    IN  IF status = RUNNING /\ task.started_at = None
        THEN [s EXCEPT !.started_at = Some(t)]
        ELSE IF status \in {COMPLETED, FAILED, CANCELLED}
             THEN [s EXCEPT !.completed_at = Some(t), !.progress = ProgressOne]
             ELSE s

\* the status branch of TaskManager.update
SetStatus(task, status, t) ==
    LET s == [task EXCEPT !.status = status]
    IN  IF status = RUNNING /\ task.started_at = None
        THEN [s EXCEPT !.started_at = Some(t)]
        ELSE IF status \in {COMPLETED, FAILED, CANCELLED}
             THEN [s EXCEPT !.completed_at = Some(t),
                            !.progress = IF status = COMPLETED THEN ProgressOne ELSE @]
             ELSE s

\* the body of update without the final refresh of updated_at
ApplyUpdate_NoRefresh(task, a, t) ==
    LET t1 == IF a.progress # None THEN [task EXCEPT !.progress = Clamp(a.progress[1])] ELSE task
        t2 == IF TruthyStr(a.step) THEN [t1 EXCEPT !.current_step = a.step[1]] ELSE t1
        t3 == IF TruthyStr(a.log) THEN add_log(t2, a.log[1], t) ELSE t2
        t4 == IF a.status # None THEN SetStatus(t3, a.status[1], t) ELSE t3
        t5 == IF TruthyDict(a.result) THEN [t4 EXCEPT !.result = a.result] ELSE t4
    IN  IF TruthyStr(a.error) THEN [t5 EXCEPT !.error = a.error] ELSE t5

\* the body of TaskManager.update between the get and the save
ApplyUpdate(task, a, t) ==
    LET t1 == IF a.progress # None THEN [task EXCEPT !.progress = Clamp(a.progress[1])] ELSE task
        t2 == IF TruthyStr(a.step) THEN [t1 EXCEPT !.current_step = a.step[1]] ELSE t1
        t3 == IF TruthyStr(a.log) THEN add_log(t2, a.log[1], t) ELSE t2
        t4 == IF a.status # None THEN SetStatus(t3, a.status[1], t) ELSE t3
        t5 == IF TruthyDict(a.result) THEN [t4 EXCEPT !.result = a.result] ELSE t4
        t6 == IF TruthyStr(a.error) THEN [t5 EXCEPT !.error = a.error] ELSE t5
    IN  [t6 EXCEPT !.updated_at = t]

\* ------------------------------------------------------------------- state
VARIABLES
    now,      \* the wall clock (datetime.utcnow)
    store,    \* Redis: task id -> the record under "task:<id>", None if no key
    expire,   \* Redis: task id -> the time at which the key expires
    index,    \* Redis: the set "tasks:all"
    nextId,   \* the ids handed out so far are 1..nextId-1 (uuid4 never repeats)
    ret       \* the last call: its name, its task id and what it returned (the
              \* tasks as a list; for delete, whether a key was removed)

\* one SSE connection (api/streaming.py), the locals of its event_generator
VARIABLES
    sse_pc,          \* where the generator is: "idle" before the connection, "sleep"
                     \* in the polling loop, "final" after the loop, "closed" after
                     \* its return, "raised" when an exception ended it
    sse_variant,     \* which endpoint: "logs" (stream_logs) or "updates" (stream_task_updates)
    sse_task_id,     \* the task_id of the connection
    sse_task,        \* the local variable task: what the last manager.get returned
    last_log_count,  \* stream_logs: the number of log lines sent so far
    last_updated,    \* stream_task_updates: the updated_at seen last
    events,          \* the events yielded so far, in order
    polls            \* the number of sleep-and-re-fetch cycles so far

svars == <<sse_pc, sse_variant, sse_task_id, sse_task, last_log_count, last_updated, events, polls>>

\* the WebSocket sockets and the broadcast calls of a run
MaxSockets == 2
MaxBroadcasts == 1
Sockets == 1..MaxSockets
Broadcasts == (MaxSockets + 1)..(MaxSockets + MaxBroadcasts)

\* the calls that run send_personal_message: job s of Sockets is the connect()
\* call of socket s, a job of Broadcasts is one broadcast_task_update() call
Jobs == Sockets \cup Broadcasts

\* the WebSocket connection manager (api/websocket.py) and the peers of its sockets
VARIABLES
    active_connections,  \* task id -> the list of its sockets; <<>> is "no such key"
    alive,               \* socket -> whether its peer is still connected
    endpoint,            \* socket -> where its task_websocket handler is: "new" before
                         \* the request, "connecting" inside manager.connect, "open" in
                         \* the receive loop, "closed" after its disconnect, "raised"
                         \* when an exception ended it
    jobs,                \* job -> the locals of its connect / send_personal_message call:
                         \* pc ("idle", "lookup", "sending", "returned", "raised"), the
                         \* task that connect loaded, the message, the sockets of the
                         \* snapshot still to send to, and the try/except block of
                         \* connect that the send runs in
    inbox,               \* socket -> the messages its peer has received, in order
    disconnected,        \* the last disconnect() call: its arguments and whether it raised
    lock                 \* self._lock: the job that holds it, 0 when it is free

wvars == <<active_connections, alive, endpoint, jobs, inbox, disconnected, lock>>

\* the task manager's variables
\* the calls of update, cancel and delete that are in flight (task_manager.py):
\* each call suspends at its awaits, where the other calls run
MaxCallers == 2
Callers == 1..MaxCallers

VARIABLES
    callers   \* caller -> the call it makes: its operation, its task id and
              \* arguments, where it is ("idle" before the call, "save" between
              \* its get and its save, "srem" between the two commands of delete,
              \* "returned"), the record its get returned, the record it hands to
              \* save, and whether its command has reached Redis

tvars == <<now, store, expire, index, nextId, ret, callers>>

\* the repositories, start() calls, poll cycles and add_repo() calls of a run
MaxRepos == 2
MaxAdds == 2
MaxStarts == 2
MaxCycles == 2
MaxIssues == 2
RepoKeys == 1..MaxRepos
Starts == 1..MaxStarts

\* the repository monitor (core/monitoring.py), its Redis keys and its tasks
VARIABLES
    redis,            \* whether self.redis is set (init_redis has run)
    saved,            \* repo key -> the record persisted under monitor:repo:<key>
    repos,            \* the MonitoredRepo objects created so far, by object id
    monitored_repos,  \* repo key -> the id of its object, 0 for "no such key"
    running,          \* self.running
    monitor_tasks,    \* self.tasks: the ids of the polling tasks it holds
    loops,            \* the _poll_repo tasks created so far, by task id: the object
                      \* polled, pc ("new" before the first step, "fetch", "callback",
                      \* "save" and "sleep" at the awaits, "done" after the loop,
                      \* "cancelled"), the issues of the cycle from the current one
                      \* on, the index of the callback awaited, the number of cycles
                      \* begun and whether the current cycle met a failure
    calls,            \* repo key -> the callback invocations for the repository so
                      \* far, in order
    fetched,          \* repo key -> the items that the requests for the repository
                      \* have returned so far, in order
    starts,           \* start() call -> "idle", "loading" (in init_redis), "returned"
    stops,            \* the stop() call in flight: "idle" or "gather", and the
                      \* number of tasks that existed when it began
    github            \* repo key -> the times at which the issues of the
                      \* repository were opened on GitHub, in order: issue
                      \* FirstIssue + i - 1 was opened at github[key][i]

mvars == <<redis, saved, repos, monitored_repos, running, monitor_tasks, loops, calls, fetched,
          starts, stops, github>>

vars == <<now, store, expire, index, nextId, ret, callers, svars, wvars, mvars>>

\* a message of the WebSocket channel: its type, the task id of a broadcast, the
\* task of an init message and the text of a log or error message
Message(type, task_id, task, data) ==
    [type |-> type, task_id |-> task_id, task |-> task, data |-> data]

NoMessage == Message("", 0, None, "")

\* a call that has not started
IdleJob ==
    [pc |-> "idle", task_id |-> 0, task |-> None, message |-> NoMessage, todo |-> <<>>,
     handler |-> ""]

\* a caller that has not made its call
IdleCall ==
    [pc |-> "idle", op |-> "", task_id |-> 0,
     args |-> [progress |-> None, step |-> None, log |-> None,
               status |-> None, result |-> None, error |-> None],
     read |-> None, task |-> None, wrote |-> FALSE]

Init ==
    /\ now = Epoch
    /\ store = [i \in Ids |-> None]
    /\ expire = [i \in Ids |-> 0]
    /\ index = {}
    /\ nextId = 1
    /\ ret = [op |-> "init", id |-> 0, val |-> <<>>]
    /\ callers = [c \in Callers |-> IdleCall]
    /\ sse_pc = "idle"
    /\ sse_variant = ""
    /\ sse_task_id = 0
    /\ sse_task = None
    /\ last_log_count = 0
    /\ last_updated = 0
    /\ events = <<>>
    /\ polls = 0
    /\ active_connections = [t \in Ids |-> <<>>]
    /\ alive = [s \in Sockets |-> TRUE]
    /\ endpoint = [s \in Sockets |-> "new"]
    /\ jobs = [j \in Jobs |-> IdleJob]
    /\ inbox = [s \in Sockets |-> <<>>]
    /\ disconnected = [task_id |-> 0, websocket |-> 0, raised |-> FALSE]
    /\ lock = 0
    /\ redis = FALSE
    /\ saved = [k \in RepoKeys |-> None]
    /\ repos = <<>>
    /\ monitored_repos = [k \in RepoKeys |-> 0]
    /\ running = FALSE
    /\ monitor_tasks = <<>>
    /\ loops = <<>>
    /\ calls = [k \in RepoKeys |-> <<>>]
    /\ fetched = [k \in RepoKeys |-> <<>>]
    /\ starts = [c \in Starts |-> "idle"]
    /\ stops = [pc |-> "idle", before |-> 0]
    /\ github = [k \in RepoKeys |-> <<>>]

Returned(op, id, val) == [op |-> op, id |-> id, val |-> val]

\* a save that keeps the time to live of a key that exists
save_KeepTTL(task) ==
    /\ store' = [store EXCEPT ![task.id] = Some(task)]
    /\ expire' = [expire EXCEPT ![task.id] = IF store[task.id] = None THEN now + TTL ELSE @]

\* TaskManager.save: r.set(key, json, ex=86400)
save(task) ==
    /\ store' = [store EXCEPT ![task.id] = Some(task)]
    /\ expire' = [expire EXCEPT ![task.id] = now + TTL]

\* TaskManager.get
get(task_id) == store[task_id]

\* ---------------------------------------------------------------- inputs
\* TaskCreateRequest values (max_iterations is validated to 1..10, default 5)
Request(type, issue, pr, branch) ==
    [type |-> type, issue_number |-> issue, pr_number |-> pr,
     branch_name |-> branch, max_iterations |-> 5]

ScenarioA == Request(CODE_AGENT, Some(42), None, None)

Requests ==
    { ScenarioA,
      Request(CODE_AGENT, Some(42), None, Some("feature/x")),
      Request(CODE_AGENT, Some(42), None, Some("")),
      Request(CODE_AGENT, Some(0), None, None),
      Request(REVIEWER, None, Some(7), None) }

\* keyword arguments of TaskManager.update
Args(progress, step, log, status, result, error) ==
    [progress |-> progress, step |-> step, log |-> log,
     status |-> status, result |-> result, error |-> error]

ProgressArgs == {None, Some(0 - 5), Some(4), Some(15)}
StatusArgs == {None} \cup {Some(s) : s \in TaskStatus}
EmptyDict == [k \in {} |-> 0]

\* ------------------------------------------------------------- operations
\* TaskManager.create
Create(request) ==
    /\ nextId <= MaxTasks
    /\ LET task == NewTask(nextId, request, now)
       IN  /\ save(task)
           /\ index' = index \cup {nextId}
           /\ ret' = Returned("create", nextId, Some(task))
    /\ nextId' = nextId + 1
    /\ UNCHANGED <<now, svars, wvars, mvars, callers>>

\* TaskManager.get
Get(task_id) ==
    /\ ret' = Returned("get", task_id, get(task_id))
    /\ UNCHANGED <<now, store, expire, index, nextId, svars, wvars, mvars, callers>>

\* update that writes a record for an id that has none
Update_Upsert(task_id, a) ==
    /\ LET old == IF get(task_id) = None THEN NewTask(task_id, ScenarioA, now)
                  ELSE get(task_id)[1]
           task == ApplyUpdate(old, a, now)
       IN  /\ Len(task.logs) <= MaxLog
           /\ save(task)
           /\ ret' = Returned("update", task_id, Some(task))
    /\ UNCHANGED <<now, index, nextId, svars, wvars, mvars, callers>>

\* TaskManager.update
Update(task_id, a) ==
    /\ IF get(task_id) = None
       THEN /\ ret' = Returned("update", task_id, None)
            /\ UNCHANGED <<store, expire>>
       ELSE LET task == ApplyUpdate(get(task_id)[1], a, now)
            IN  /\ Len(task.logs) <= MaxLog
                /\ save(task)
                /\ ret' = Returned("update", task_id, Some(task))
    /\ UNCHANGED <<now, index, nextId, svars, wvars, mvars, callers>>

\* TaskManager.delete
Delete(task_id) ==
    /\ store' = [store EXCEPT ![task_id] = None]
    /\ expire' = [expire EXCEPT ![task_id] = 0]
    /\ index' = index \ {task_id}
    /\ ret' = Returned("delete", task_id, Some(get(task_id) # None))
    /\ UNCHANGED <<now, nextId, svars, wvars, mvars, callers>>

\* TaskManager.cancel
Cancel(task_id) ==
    /\ IF get(task_id) = None
       THEN /\ ret' = Returned("cancel", task_id, None)
            /\ UNCHANGED <<store, expire>>
       ELSE IF ~is_active(get(task_id)[1])
            THEN /\ ret' = Returned("cancel", task_id, get(task_id))
                 /\ UNCHANGED <<store, expire>>
            ELSE LET task == mark_cancelled(get(task_id)[1], now)
                 IN  /\ Len(task.logs) <= MaxLog
                     /\ save(task)
                     /\ ret' = Returned("cancel", task_id, Some(task))
    /\ UNCHANGED <<now, index, nextId, svars, wvars, mvars, callers>>

\* ------------------------------------------- operations, await by await
\* the call of a caller, once it has returned
ReturnedCall(call) == [call EXCEPT !.pc = "returned"]

\* update that reads the record again when its save reaches Redis
Written_Reread(call) ==
    IF store[call.task_id] = None THEN call.task[1]
    ELSE ApplyUpdate(store[call.task_id][1], call.args, call.task[1].updated_at)

\* the record that the save of update hands to Redis: the one built from the
\* record its own get returned
Written(call) == call.task[1]

\* TaskManager.update up to "await self.save(task)": the get, the return when
\* no record was read, the changes to the object that was read
update_get(c, task_id, a) ==
    /\ callers[c].pc = "idle"
    /\ LET call == [IdleCall EXCEPT !.op = "update", !.task_id = task_id, !.args = a,
                                    !.read = get(task_id)]
       IN  IF get(task_id) = None
           THEN /\ callers' = [callers EXCEPT ![c] = ReturnedCall(call)]
                /\ ret' = Returned("update", task_id, None)
           ELSE LET task == ApplyUpdate(get(task_id)[1], a, now)
                IN  /\ Len(task.logs) <= MaxLog
                    /\ callers' = [callers EXCEPT ![c] = [call EXCEPT !.pc = "save",
                                                                      !.task = Some(task)]]
                    /\ UNCHANGED ret
    /\ UNCHANGED <<now, store, expire, index, nextId, svars, wvars, mvars>>

\* TaskManager.update from the save on: the SET reaches Redis, the call returns
update_save(c) ==
    /\ callers[c].pc = "save"
    /\ callers[c].op = "update"
    /\ save(Written(callers[c]))
    /\ callers' = [callers EXCEPT ![c] = [ReturnedCall(@) EXCEPT !.wrote = TRUE]]
    /\ ret' = Returned("update", callers[c].task_id, callers[c].task)
    /\ UNCHANGED <<now, index, nextId, svars, wvars, mvars>>

\* TaskManager.cancel up to "await self.save(task)": the get, the two early
\* returns, mark_cancelled on the object that was read
cancel_get(c, task_id) ==
    /\ callers[c].pc = "idle"
    /\ LET call == [IdleCall EXCEPT !.op = "cancel", !.task_id = task_id,
                                    !.read = get(task_id)]
       IN  IF get(task_id) = None
           THEN /\ callers' = [callers EXCEPT ![c] = ReturnedCall(call)]
                /\ ret' = Returned("cancel", task_id, None)
           ELSE IF ~is_active(get(task_id)[1])
           THEN /\ callers' = [callers EXCEPT ![c] = ReturnedCall(call)]
                /\ ret' = Returned("cancel", task_id, get(task_id))
           ELSE LET task == mark_cancelled(get(task_id)[1], now)
                IN  /\ Len(task.logs) <= MaxLog
                    /\ callers' = [callers EXCEPT ![c] = [call EXCEPT !.pc = "save",
                                                                      !.task = Some(task)]]
                    /\ UNCHANGED ret
    /\ UNCHANGED <<now, store, expire, index, nextId, svars, wvars, mvars>>

\* TaskManager.cancel from the save on
cancel_save(c) ==
    /\ callers[c].pc = "save"
    /\ callers[c].op = "cancel"
    /\ save(callers[c].task[1])
    /\ callers' = [callers EXCEPT ![c] = [ReturnedCall(@) EXCEPT !.wrote = TRUE]]
    /\ ret' = Returned("cancel", callers[c].task_id, callers[c].task)
    /\ UNCHANGED <<now, index, nextId, svars, wvars, mvars>>

\* TaskManager.delete up to "await r.srem(...)": the DEL of the key
delete_key(c, task_id) ==
    /\ callers[c].pc = "idle"
    /\ store' = [store EXCEPT ![task_id] = None]
    /\ expire' = [expire EXCEPT ![task_id] = 0]
    /\ callers' = [callers EXCEPT ![c] = [IdleCall EXCEPT !.op = "delete", !.pc = "srem",
                                                          !.task_id = task_id,
                                                          !.read = get(task_id),
                                                          !.wrote = TRUE]]
    /\ UNCHANGED <<now, index, nextId, ret, svars, wvars, mvars>>

\* TaskManager.delete from the SREM on: the id leaves the index, the call
\* returns whether the DEL removed a key
delete_srem(c) ==
    /\ callers[c].pc = "srem"
    /\ index' = index \ {callers[c].task_id}
    /\ callers' = [callers EXCEPT ![c] = ReturnedCall(@)]
    /\ ret' = Returned("delete", callers[c].task_id, Some(callers[c].read # None))
    /\ UNCHANGED <<now, store, expire, nextId, svars, wvars, mvars>>

\* the clock advances; Redis drops the keys whose time to live has run out
Tick ==
    /\ now + ClockStep <= MaxNow
    /\ now' = now + ClockStep
    /\ store' = [i \in Ids |-> IF store[i] # None /\ expire[i] <= now' THEN None ELSE store[i]]
    /\ expire' = [i \in Ids |-> IF store[i] # None /\ expire[i] <= now' THEN 0 ELSE expire[i]]
    /\ UNCHANGED <<index, nextId, ret, svars, wvars, mvars, callers>>

\* the Task object the caller was handed by the last call
HasTask == ret.op \in {"create", "get", "update", "cancel", "add_log", "mark_started"}
              /\ ret.val # None
Held == ret.val[1]

\* task.add_log(message) on the Task object in the caller's hands
AddLog(message) ==
    /\ HasTask
    /\ Len(Held.logs) < MaxLog
    /\ ret' = Returned("add_log", ret.id, Some(add_log(Held, message, now)))
    /\ UNCHANGED <<now, store, expire, index, nextId, svars, wvars, mvars, callers>>

\* task.mark_started() on the Task object in the caller's hands
MarkStarted ==
    /\ HasTask
    /\ Len(Held.logs) < MaxLog
    /\ ret' = Returned("mark_started", ret.id, Some(mark_started(Held, now)))
    /\ UNCHANGED <<now, store, expire, index, nextId, svars, wvars, mvars, callers>>

\* ---------------------------------------------------------- specifications
\* Each specification runs the operations in one environment: the callers it
\* has and the arguments they pass.  Spec, at the end, has them all.

\* update() calls of the workflow runner: every progress with every status
LifeArgs ==
    {Args(p, None, None, s, None, None) : p \in ProgressArgs, s \in StatusArgs}

\* one task from creation to deletion or expiry
NextLife ==
    \/ nextId = 1 /\ Create(ScenarioA)
    \/ \E a \in LifeArgs : Update(1, a)
    \/ Cancel(1)
    \/ Delete(1)
    \/ Tick

SpecLife == Init /\ [][NextLife]_vars

\* update() calls next to which the helpers of the Task object are used
RecordArgs ==
    {Args(None, None, None, Some(RUNNING), None, None),
     Args(None, None, None, Some(COMPLETED), None, None),
     Args(None, None, Some("a"), None, None, None)}

\* one task, and a caller that uses the helpers of the Task object it holds
NextRecord ==
    \/ nextId = 1 /\ Create(ScenarioA)
    \/ \E a \in RecordArgs : Update(1, a)
    \/ Get(1)
    \/ \E m \in {"", "a"} : AddLog(m)
    \/ MarkStarted
    \/ Tick

SpecRecord == Init /\ [][NextRecord]_vars

\* TaskManager.get_all: the records of the index ids that are in the store, filtered
Fetched(status) ==
    {store[i][1] : i \in {j \in index : get(j) # None
                                    /\ (status = None \/ get(j)[1].status = status[1])}}

\* the sort without reverse=True
Sorted_Ascending(tasks) ==
    \A i, j \in 1..Len(tasks) : i < j => tasks[i].created_at <= tasks[j].created_at

\* tasks.sort(key=lambda t: t.created_at, reverse=True)
Sorted(tasks) ==
    \A i, j \in 1..Len(tasks) : i < j => tasks[i].created_at >= tasks[j].created_at

\* the lists with exactly the elements of S, each once
Orderings(S) ==
    {q \in [1..Cardinality(S) -> S] : \A i, j \in 1..Cardinality(S) : q[i] = q[j] => i = j}

\* TaskManager.get_all: smembers yields the ids in no particular order and the
\* sort is stable, so tasks created at the same time come in any order
GetAll(status) ==
    /\ \E q \in Orderings(Fetched(status)) :
          /\ Sorted(q)
          /\ ret' = Returned("get_all", 0, q)
    /\ UNCHANGED <<now, store, expire, index, nextId, svars, wvars, mvars, callers>>

\* update() calls that move a task through its statuses
ListArgs ==
    {Args(None, None, None, Some(COMPLETED), None, None)}

\* several tasks, created at different times, listed
NextList ==
    \/ Create(ScenarioA)
    \/ \E s \in {None, Some(PENDING), Some(RUNNING), Some(COMPLETED)} : GetAll(s)
    \/ \E i \in Ids, a \in ListArgs : Update(i, a)
    \/ Tick

SpecList == Init /\ [][NextList]_vars

\* several tasks created from different requests
NextCreate ==
    \/ \E r \in Requests : Create(r)
    \/ \E i \in Ids : Get(i)
    \/ \E i \in Ids : Delete(i)
    \/ Tick

SpecCreate == Init /\ [][NextCreate]_vars

\* update() calls with truthy and with falsy keyword arguments
StoreArgs ==
    {Args(Some(4), Some("coding"), None, Some(FAILED), Some([pr_url |-> "u"]), Some("boom")),
     Args(None, Some(""), Some(""), None, Some(EmptyDict), Some("")),
     Args(None, None, Some("a"), None, None, None),
     Args(None, None, None, None, None, None)}

\* calls for ids with and without a record in the store
NextStore ==
    \/ nextId = 1 /\ Create(ScenarioA)
    \/ \E i \in Ids : Get(i)
    \/ \E i \in Ids, a \in StoreArgs : Update(i, a)
    \/ \E i \in Ids : Cancel(i)
    \/ \E i \in Ids : Delete(i)
    \/ Tick

SpecStore == Init /\ [][NextStore]_vars

\* -------------------------------------------------------- listing, health
\* the element of q with the largest created_at goes first; of two elements with
\* the same created_at the one that was earlier in the input stays earlier
InsertDesc(q, t) ==
    LET k == Cardinality({n \in 1..Len(q) : q[n].created_at >= t.created_at})
    IN  SubSeq(q, 1, k) \o <<t>> \o SubSeq(q, k + 1, Len(q))

\* sorted(tasks, key=lambda t: t.created_at, reverse=True): a stable sort
RECURSIVE SortedDesc(_)
SortedDesc(tasks) ==
    IF tasks = <<>> THEN <<>>
    ELSE InsertDesc(SortedDesc(SubSeq(tasks, 1, Len(tasks) - 1)), tasks[Len(tasks)])

\* the possible results of one get_all(status) call
GetAllResults(status) == {q \in Orderings(Fetched(status)) : Sorted(q)}

\* a listing that leaves the reviewing tasks out
ActiveOnlyStatuses_NoReviewing == <<PENDING, RUNNING>>

\* list_tasks: the statuses it fetches, in this order, when active_only is set
ActiveOnlyStatuses == <<PENDING, RUNNING, REVIEWING>>

RECURSIVE Extended(_)
\* tasks.extend(get_all(s)) for the first n statuses of ActiveOnlyStatuses
Extended(n) ==
    IF n = 0 THEN {<<>>}
    ELSE {head \o q : head \in Extended(n - 1),
                      q \in GetAllResults(Some(ActiveOnlyStatuses[n]))}

\* GET /tasks: list_tasks(status, active_only)
ListTasks(status, active_only) ==
    /\ IF active_only
       THEN \E tasks \in Extended(Len(ActiveOnlyStatuses)) :
               ret' = Returned("list_active", 0, SortedDesc(tasks))
       ELSE \E q \in GetAllResults(status) :
               ret' = Returned("list_tasks", 0, q)
    /\ UNCHANGED <<now, store, expire, index, nextId, svars, wvars, mvars, callers>>

\* TaskManager.get_active_tasks
GetActiveTasks ==
    /\ \E q \in GetAllResults(Some(RUNNING)) :
          ret' = Returned("get_active_tasks", 0, q)
    /\ UNCHANGED <<now, store, expire, index, nextId, svars, wvars, mvars, callers>>

\* GET /health with Redis reachable: ping succeeds, active_tasks is the length of
\* the list get_active_tasks returns
HealthCheck ==
    /\ \E q \in GetAllResults(Some(RUNNING)) :
          ret' = Returned("health_check", 0,
                          Some([status |-> "healthy", redis_connected |-> TRUE,
                                active_tasks |-> Len(q)]))
    /\ UNCHANGED <<now, store, expire, index, nextId, svars, wvars, mvars, callers>>

\* the status the workflow runner gives a task next
NextStatus(status) ==
    CASE status = PENDING -> RUNNING
      [] status = RUNNING -> REVIEWING
      [] OTHER -> COMPLETED

\* several tasks, listed and counted; the runner takes the task created last
\* through its statuses
NextActive ==
    \/ Create(ScenarioA)
    \/ \E i \in {nextId - 1} \cap Ids :
          /\ store[i] # None
          /\ is_active(store[i][1])
          /\ Update(i, Args(None, None, None, Some(NextStatus(store[i][1].status)), None, None))
    \/ \E s \in {None, Some(RUNNING)}, b \in BOOLEAN : ListTasks(s, b)
    \/ GetActiveTasks
    \/ HealthCheck
    \/ Tick

SpecActive == Init /\ [][NextActive]_vars

\* ---------------------------------------------------------------- cleanup
\* the ids cleanup_old_tasks deletes: those of the index whose record is in the
\* store with a completed_at earlier than the cutoff
Swept(max_age_hours) ==
    {i \in index : /\ get(i) # None
                   /\ get(i)[1].completed_at # None
                   /\ get(i)[1].completed_at[1] < now - max_age_hours * SecondsPerHour}

\* TaskManager.cleanup_old_tasks, run with no other call in between
CleanupOldTasks(max_age_hours) ==
    /\ store' = [i \in Ids |-> IF i \in Swept(max_age_hours) THEN None ELSE store[i]]
    /\ expire' = [i \in Ids |-> IF i \in Swept(max_age_hours) THEN 0 ELSE expire[i]]
    /\ index' = index \ Swept(max_age_hours)
    /\ ret' = Returned("cleanup_old_tasks", 0, Some(Cardinality(Swept(max_age_hours))))
    /\ UNCHANGED <<now, nextId, svars, wvars, mvars, callers>>

\* max_age_hours arguments: everything finished before now, and half a day
AgeArgs == {0, 12}

\* update() calls that set a status
CleanupArgs ==
    {Args(None, None, None, Some(RUNNING), None, None),
     Args(None, None, None, Some(COMPLETED), None, None)}

\* several tasks, updated by their runner and swept from time to time
NextCleanup ==
    \/ Create(ScenarioA)
    \/ \E i \in Ids, a \in CleanupArgs : Update(i, a)
    \/ \E h \in AgeArgs : CleanupOldTasks(h)
    \/ Tick

SpecCleanup == Init /\ [][NextCleanup]_vars

\* ------------------------------------------------------------------ retry
\* f"Повторная попытка из задачи {task_id}"
RetryMessage(task_id) ==
    CASE task_id = 1 -> "retry of task 1"
      [] task_id = 2 -> "retry of task 2"
      [] OTHER -> "retry of task n"

\* the TaskCreateRequest retry_task builds from the original task
RetryRequest(original) ==
    [type |-> original.type, issue_number |-> original.issue_number,
     pr_number |-> original.pr_number, branch_name |-> original.branch_name,
     max_iterations |-> original.max_iterations]

\* POST /tasks/{task_id}/retry: 404 when the task is absent; otherwise create()
\* stores the new task, then add_log is called on the Task object create returned
RetryTask(task_id) ==
    /\ IF get(task_id) = None
       THEN /\ ret' = Returned("retry_task", task_id, None)
            /\ UNCHANGED <<store, expire, index, nextId>>
       ELSE /\ nextId <= MaxTasks
            /\ LET new_task == NewTask(nextId, RetryRequest(get(task_id)[1]), now)
               IN  /\ save(new_task)
                   /\ index' = index \cup {nextId}
                   /\ ret' = Returned("retry_task", nextId,
                                      Some(add_log(new_task, RetryMessage(task_id), now)))
            /\ nextId' = nextId + 1
    /\ UNCHANGED <<now, svars, wvars, mvars, callers>>

\* update() calls that leave output in a task: a log line, a failure
RetryArgs ==
    {Args(Some(4), Some("coding"), Some("a"), Some(FAILED), Some([pr_url |-> "u"]), Some("boom")),
     Args(None, None, None, Some(RUNNING), None, None)}

\* a task of any request, worked on, then retried and read back
NextRetry ==
    \/ nextId = 1 /\ \E r \in Requests : Create(r)
    \/ \E a \in RetryArgs : Update(1, a)
    \/ \E i \in Ids : RetryTask(i)
    \/ \E i \in Ids : Get(i)
    \/ Tick

SpecRetry == Init /\ [][NextRetry]_vars

\* ------------------------------------------------------------ SSE streams
LOGS == "logs"
UPDATES == "updates"
Variants == {LOGS, UPDATES}

\* task.status.value.  The Task model sets use_enum_values, so the status of a
\* validated Task is the plain string of the enum member, and the attribute
\* value of a string raises AttributeError; on an enum member it is that
\* string.  Both outcomes are kept: None stands for the exception.
StatusValues(task) == {None, Some(task.status)}

\* json.dumps(task.model_dump()).  model_dump() keeps created_at and updated_at
\* as datetime objects (json_encoders applies to JSON-mode serialization only),
\* and json.dumps raises TypeError on a datetime: None stands for the exception.
DumpedModel(task) == None

\* {"event": "error", ...}: the message names the task id
ErrorEvent(what, task_id) ==
    [event |-> "error", data |-> [error |-> what, task_id |-> task_id]]

\* {"event": "log", "data": {"message": log, "timestamp": utcnow}}
LogEvent(log, t) == [event |-> "log", data |-> [message |-> log, timestamp |-> t]]

\* one log event for each line, in order
LogEvents(logs, t) == [k \in 1..Len(logs) |-> LogEvent(logs[k], t)]

\* {"event": "status", "data": {status, progress, step}}
StatusEvent(task, value) ==
    [event |-> "status",
     data |-> [status |-> value, progress |-> task.progress, step |-> task.current_step]]

\* {"event": "done", "data": {status, progress, result, error}}
DoneEvent(task, value) ==
    [event |-> "done",
     data |-> [status |-> value, progress |-> task.progress,
               result |-> task.result, error |-> task.error]]

\* {"event": kind, "data": json.dumps(task.model_dump())} for init, update, complete
DumpEvent(kind, task) ==
    IF DumpedModel(task) = None THEN None
    ELSE Some([event |-> kind, data |-> DumpedModel(task)[1]])

\* a slice that sends the whole log again
NewLogs_All(logs, count) == logs

\* task.logs[last_log_count:] under the test len(task.logs) > last_log_count
NewLogs(logs, count) ==
    IF Len(logs) > count THEN SubSeq(logs, count + 1, Len(logs)) ELSE <<>>

\* the test of the while loop: stay in the loop or go to the final event
LoopTest(task) == IF is_active(task) THEN "sleep" ELSE "final"

\* what event_generator does when the first manager.get finds no task, with the
\* return left out: the generator goes on to the final event
NotFound_NoReturn(task_id) ==
    /\ events' = <<ErrorEvent("not found", task_id)>>
    /\ sse_pc' = "final"
    /\ UNCHANGED <<last_log_count, last_updated>>

\* what event_generator does when the first manager.get finds no task: one
\* error event, then return
NotFound(task_id) ==
    /\ events' = <<ErrorEvent("not found", task_id)>>
    /\ sse_pc' = "closed"
    /\ UNCHANGED <<last_log_count, last_updated>>

\* event_generator up to the polling loop: the first manager.get and the backlog
Connect(variant, task_id) ==
    /\ sse_pc = "idle"
    /\ sse_variant' = variant
    /\ sse_task_id' = task_id
    /\ sse_task' = get(task_id)
    /\ IF get(task_id) = None
       THEN NotFound(task_id)
       ELSE LET task == get(task_id)[1]
            IN  IF variant = LOGS
                THEN /\ events' = LogEvents(task.logs, now)
                     /\ last_log_count' = Len(task.logs)
                     /\ sse_pc' = LoopTest(task)
                     /\ UNCHANGED last_updated
                ELSE IF DumpEvent("init", task) = None
                     THEN /\ sse_pc' = "raised"
                          /\ UNCHANGED <<events, last_log_count, last_updated>>
                     ELSE /\ events' = <<DumpEvent("init", task)[1]>>
                          /\ last_updated' = task.updated_at
                          /\ sse_pc' = LoopTest(task)
                          /\ UNCHANGED last_log_count
    /\ UNCHANGED <<now, store, expire, index, nextId, ret, wvars, mvars, callers, polls>>

\* one cycle of the polling loop of stream_logs with the task found
PollLogs(task) ==
    LET sent == events \o LogEvents(NewLogs(task.logs, last_log_count), now)
    IN  /\ last_log_count' = IF Len(task.logs) > last_log_count THEN Len(task.logs)
                             ELSE last_log_count
        /\ \E value \in StatusValues(task) :
              IF value = None
              THEN events' = sent /\ sse_pc' = "raised"
              ELSE /\ events' = Append(sent, StatusEvent(task, value[1]))
                   /\ sse_pc' = LoopTest(task)
        /\ UNCHANGED last_updated

\* one cycle of the polling loop of stream_task_updates with the task found
PollUpdates(task) ==
    /\ IF task.updated_at > last_updated
       THEN IF DumpEvent("update", task) = None
            THEN sse_pc' = "raised" /\ UNCHANGED <<events, last_updated>>
            ELSE /\ events' = Append(events, DumpEvent("update", task)[1])
                 /\ last_updated' = task.updated_at
                 /\ sse_pc' = LoopTest(task)
       ELSE sse_pc' = LoopTest(task) /\ UNCHANGED <<events, last_updated>>
    /\ UNCHANGED last_log_count

\* one cycle of the polling loop: asyncio.sleep(0.5), manager.get, the events
Poll ==
    /\ sse_pc = "sleep"
    /\ polls < MaxPolls
    /\ polls' = polls + 1
    /\ sse_task' = get(sse_task_id)
    /\ IF get(sse_task_id) = None
       THEN /\ events' = Append(events, ErrorEvent("disappeared", sse_task_id))
            /\ sse_pc' = "final"
            /\ UNCHANGED <<last_log_count, last_updated>>
       ELSE IF sse_variant = LOGS THEN PollLogs(get(sse_task_id)[1])
            ELSE PollUpdates(get(sse_task_id)[1])
    /\ UNCHANGED <<now, store, expire, index, nextId, ret, wvars, mvars, callers, sse_variant, sse_task_id>>

\* the final event after the loop, built from the local variable task; after
\* the break of the loop task is None, and task.status or task.model_dump
\* raises AttributeError
Final ==
    /\ sse_pc = "final"
    /\ IF sse_task = None
       THEN sse_pc' = "raised" /\ UNCHANGED events
       ELSE IF sse_variant = LOGS
            THEN \E value \in StatusValues(sse_task[1]) :
                    IF value = None
                    THEN sse_pc' = "raised" /\ UNCHANGED events
                    ELSE /\ events' = Append(events, DoneEvent(sse_task[1], value[1]))
                         /\ sse_pc' = "closed"
            ELSE IF DumpEvent("complete", sse_task[1]) = None
                 THEN sse_pc' = "raised" /\ UNCHANGED events
                 ELSE /\ events' = Append(events, DumpEvent("complete", sse_task[1])[1])
                      /\ sse_pc' = "closed"
    /\ UNCHANGED <<now, store, expire, index, nextId, ret, wvars, mvars, callers, sse_variant, sse_task_id,
                   sse_task, last_log_count, last_updated, polls>>

\* update() calls of the runner while a stream is open
StreamArgs ==
    {Args(None, None, Some("a"), None, None, None),
     Args(None, None, None, Some(COMPLETED), None, None)}

\* one task and one SSE connection to it or to an id without a record
NextStream ==
    \/ nextId = 1 /\ Create(ScenarioA)
    \/ \E a \in StreamArgs : Update(1, a)
    \/ Cancel(1)
    \/ Delete(1)
    \/ Tick
    \/ \E v \in Variants, i \in Ids : Connect(v, i)
    \/ Poll
    \/ Final

SpecStream == Init /\ [][NextStream]_vars

\* ------------------------------------------------- WebSocket connections
\* the members of a list
Elements(list) == {list[k] : k \in 1..Len(list)}

\* list.remove(x) for an x of the list: the list without its first x
RECURSIVE Remove(_, _)
Remove(list, x) ==
    IF list = <<>> THEN <<>>
    ELSE IF Head(list) = x THEN Tail(list)
    ELSE <<Head(list)>> \o Remove(Tail(list), x)

\* disconnect(): nothing for a task id without a key; for a key, list.remove,
\* which raises ValueError for a socket that is not in the list, and the key is
\* deleted with its last socket
Disconnected(registry, task_id, websocket) ==
    IF registry[task_id] = <<>>
    THEN [registry |-> registry, raised |-> FALSE]
    ELSE IF websocket \in Elements(registry[task_id])
    THEN [registry |-> [registry EXCEPT ![task_id] = Remove(@, websocket)], raised |-> FALSE]
    ELSE [registry |-> registry, raised |-> TRUE]

\* {"type": "init", "task": task.model_dump()}
InitMessage(task) == Message("init", 0, Some(task), "")

\* {"type": "error", "message": "... {e}"}
ErrorMessage == Message("error", 0, None, "load failed")

\* WebSocket.send_json encodes with json.dumps: the text sent, None where
\* json.dumps raises TypeError, which it does for the init message because
\* model_dump() keeps the datetime fields
JsonText(message) ==
    IF message.task = None THEN Some(message)
    ELSE IF DumpedModel(message.task[1]) = None THEN None
    ELSE Some(message)

\* the start of send_personal_message: the copy of the list taken under the lock
Snapshot(job, message, handler) ==
    LET connections == active_connections[job.task_id]
    IN  [job EXCEPT !.pc = IF connections = <<>> THEN "returned" ELSE "sending",
                    !.message = message,
                    !.todo = connections,
                    !.handler = handler]

\* a send_personal_message that sends inside the "async with" block
AfterSnapshot_Held(j, job) == IF job.pc = "sending" THEN j ELSE 0

\* the lock after the snapshot of job j: the "async with self._lock" block
\* holds the copy alone and is left before the for loop
AfterSnapshot(j, job) == 0

\* task_websocket leaves manager.connect when the connect job ends
EndpointAfter(j, job) ==
    IF j \in Sockets /\ job.pc = "returned" THEN [endpoint EXCEPT ![j] = "open"]
    ELSE IF j \in Sockets /\ job.pc = "raised" THEN [endpoint EXCEPT ![j] = "raised"]
    ELSE endpoint

\* connect(), up to the registration: accept, then append under the lock
connect(task_id, websocket) ==
    /\ endpoint[websocket] = "new"
    /\ lock = 0
    /\ active_connections' = [active_connections EXCEPT ![task_id] = Append(@, websocket)]
    /\ endpoint' = [endpoint EXCEPT ![websocket] = "connecting"]
    /\ jobs' = [jobs EXCEPT ![websocket] = [IdleJob EXCEPT !.pc = "lookup", !.task_id = task_id]]
    /\ UNCHANGED <<tvars, svars, mvars, alive, inbox, disconnected, lock>>

\* connect(), the lookup: manager.get raised (failed), found nothing, or found
\* the task; the error or init message then goes through send_personal_message
connect_lookup(websocket, failed) ==
    /\ jobs[websocket].pc = "lookup"
    /\ LET job == jobs[websocket]
           task == get(job.task_id)
           after == IF failed THEN Snapshot(job, ErrorMessage, "except")
                    ELSE IF task = None THEN [job EXCEPT !.pc = "returned"]
                    ELSE Snapshot([job EXCEPT !.task = task], InitMessage(task[1]), "try")
       IN  /\ jobs' = [jobs EXCEPT ![websocket] = after]
           /\ endpoint' = EndpointAfter(websocket, after)
           /\ IF failed \/ task # None
              THEN lock = 0 /\ lock' = AfterSnapshot(websocket, after)
              ELSE UNCHANGED lock
    /\ UNCHANGED <<tvars, svars, mvars, active_connections, alive, inbox, disconnected>>

\* broadcast_task_update(): the message, then the snapshot of send_personal_message
broadcast_task_update(j, task_id, update_type, data) ==
    /\ j \in Broadcasts
    /\ jobs[j].pc = "idle"
    /\ lock = 0
    /\ jobs' = [jobs EXCEPT ![j] = Snapshot([IdleJob EXCEPT !.task_id = task_id],
                                           Message(update_type, task_id, None, data), "")]
    /\ lock' = AfterSnapshot(j, jobs'[j])
    /\ UNCHANGED <<tvars, svars, mvars, active_connections, alive, endpoint, inbox, disconnected>>

\* one turn of the loop of send_personal_message: send_json to the next socket
\* of the snapshot; a send that raises (message not encodable, peer gone) calls
\* disconnect, whose ValueError leaves the loop: into the except branch of
\* connect when it was sending the init message, out of the call otherwise
send_personal_message(j) ==
    /\ jobs[j].pc = "sending"
    /\ LET job == jobs[j]
           connection == Head(job.todo)
           rest == Tail(job.todo)
           sent == JsonText(job.message) # None /\ alive[connection]
           d == Disconnected(active_connections, job.task_id, connection)
           after == IF sent \/ ~d.raised
                    THEN [job EXCEPT !.todo = rest,
                                     !.pc = IF rest = <<>> THEN "returned" ELSE "sending"]
                    ELSE IF job.handler = "try"
                    THEN Snapshot(job, ErrorMessage, "except")
                    ELSE [job EXCEPT !.todo = rest, !.pc = "raised"]
       IN  /\ IF sent
              THEN /\ inbox' = [inbox EXCEPT ![connection] = Append(@, JsonText(job.message)[1])]
                   /\ UNCHANGED <<active_connections, disconnected, lock>>
              ELSE /\ lock = 0
                   /\ active_connections' = d.registry
                   /\ disconnected' = [task_id |-> job.task_id, websocket |-> connection,
                                       raised |-> d.raised]
                   /\ lock' = IF d.raised /\ job.handler = "try"
                              THEN AfterSnapshot(j, after) ELSE 0
                   /\ UNCHANGED inbox
           /\ jobs' = [jobs EXCEPT ![j] = after]
           /\ endpoint' = EndpointAfter(j, after)
    /\ UNCHANGED <<tvars, svars, mvars, alive>>

\* a direct call of disconnect()
disconnect(task_id, websocket) ==
    /\ lock = 0
    /\ LET d == Disconnected(active_connections, task_id, websocket)
       IN  /\ active_connections' = d.registry
           /\ disconnected' = [task_id |-> task_id, websocket |-> websocket, raised |-> d.raised]
    /\ UNCHANGED <<tvars, svars, mvars, alive, endpoint, jobs, inbox, lock>>

\* the peer of a socket closes the connection
PeerClose(websocket) ==
    /\ endpoint[websocket] \in {"connecting", "open"}
    /\ alive[websocket]
    /\ alive' = [alive EXCEPT ![websocket] = FALSE]
    /\ UNCHANGED <<tvars, svars, mvars, active_connections, endpoint, jobs, inbox, disconnected, lock>>

\* task_websocket: receive_text raises WebSocketDisconnect and the handler
\* calls disconnect, whose ValueError leaves the handler
task_websocket(websocket) ==
    /\ endpoint[websocket] = "open"
    /\ ~alive[websocket]
    /\ lock = 0
    /\ LET d == Disconnected(active_connections, jobs[websocket].task_id, websocket)
       IN  /\ active_connections' = d.registry
           /\ disconnected' = [task_id |-> jobs[websocket].task_id, websocket |-> websocket,
                               raised |-> d.raised]
           /\ endpoint' = [endpoint EXCEPT ![websocket] = IF d.raised THEN "raised" ELSE "closed"]
    /\ UNCHANGED <<tvars, svars, mvars, alive, jobs, inbox, lock>>

\* the task ids sockets connect to: task 1 is created, task 2 never is
SocketTasks == {1, 2} \cap Ids

\* one task, sockets that connect to it or to an id without a record, broadcasts
\* of a log line, peers that go away
NextSocket ==
    \/ nextId = 1 /\ Create(ScenarioA)
    \/ \E t \in SocketTasks, s \in Sockets : connect(t, s)
    \/ \E s \in Sockets, failed \in BOOLEAN : connect_lookup(s, failed)
    \/ \E j \in Broadcasts, t \in SocketTasks : broadcast_task_update(j, t, "log", "a")
    \/ \E j \in Jobs : send_personal_message(j)
    \/ \E s \in Sockets : PeerClose(s)
    \/ \E s \in Sockets : task_websocket(s)

SpecSocket == Init /\ [][NextSocket]_vars

\* the registry alone: sockets that connect to ids without a record and go away,
\* and disconnect() called for every task id and socket
NextRegistry ==
    \/ \E t \in SocketTasks, s \in Sockets : connect(t, s)
    \/ \E s \in Sockets : connect_lookup(s, FALSE)
    \/ \E t \in SocketTasks, s \in Sockets : disconnect(t, s)
    \/ \E s \in Sockets : PeerClose(s)
    \/ \E s \in Sockets : task_websocket(s)

SpecRegistry == Init /\ [][NextRegistry]_vars

\* broadcast j is called when the broadcasts before it have been
NextBroadcast(j) == \A i \in Broadcasts : i < j => jobs[i].pc # "idle"

\* socket s connects when the sockets before it have
NextConnect(s) == \A r \in Sockets : r < s => endpoint[r] # "new"

\* sockets that connect to task 1 one after the other while log lines are
\* broadcast to it; a peer may go away, so that sends fail
NextLock ==
    \/ nextId = 1 /\ Create(ScenarioA)
    \/ \E s \in Sockets : nextId > 1 /\ NextConnect(s) /\ connect(1, s)
    \/ \E s \in Sockets : connect_lookup(s, FALSE)
    \/ \E j \in Broadcasts : NextBroadcast(j) /\ broadcast_task_update(j, 1, "log", "a")
    \/ \E j \in Jobs : send_personal_message(j)
    \/ PeerClose(1)
    \/ task_websocket(1)

SpecLock == Init /\ [][NextLock]_vars

\* ---------------------------------------------------- repository monitor
\* the callbacks registered with register_callback, in the order of registration
issue_callbacks == <<1, 2>>

\* an item of the list that get_repo_issues returns: its "number" (0 for a
\* missing or zero number) and whether it has the key "pull_request"
Issue(number) == [number |-> number, pull_request |-> FALSE]

PullRequest(number) == [number |-> number, pull_request |-> TRUE]

\* MonitoredRepo(owner, repo, ...) with the defaults of the dataclass
MonitoredRepo(key) ==
    [key |-> key, last_checked |-> now, enabled |-> TRUE, processed_issues |-> {}]

\* to_dict(): the record that save_repo persists
to_dict(repo) ==
    [key |-> repo.key, last_checked |-> repo.last_checked, enabled |-> repo.enabled,
     processed_issues |-> repo.processed_issues]

\* from_dict(): the object that load_monitored_repos builds from a record
from_dict(data) ==
    [key |-> data.key, last_checked |-> data.last_checked, enabled |-> data.enabled,
     processed_issues |-> data.processed_issues]

\* load_monitored_repos from key k on: every persisted, enabled record becomes a
\* new object that replaces the entry of its key
RECURSIVE Loaded(_, _, _)
Loaded(objects, entries, k) ==
    IF k > MaxRepos THEN [repos |-> objects, monitored_repos |-> entries]
    ELSE IF saved[k] # None /\ saved[k][1].enabled
    THEN Loaded(Append(objects, from_dict(saved[k][1])),
                [entries EXCEPT ![k] = Len(objects) + 1], k + 1)
    ELSE Loaded(objects, entries, k + 1)

\* init_redis(): the first call sets self.redis and loads the persisted records
init_redis ==
    IF redis THEN [repos |-> repos, monitored_repos |-> monitored_repos]
    ELSE Loaded(repos, monitored_repos, 1)

\* a polling task that create_task has made and that has not run yet
NewLoop(repo) ==
    [repo |-> repo, pc |-> "new", todo |-> <<>>, cb |-> 0, cycles |-> 0, failed |-> FALSE]

\* a polling task that has ended: its frame is gone
Finished(loop, pc) == [NewLoop(loop.repo) EXCEPT !.pc = pc]

\* a polling task that can still run
Live(l) == loops[l].pc \notin {"done", "cancelled"}

\* the for loop of start() from key k on: one task for every enabled entry
RECURSIVE Spawned(_, _, _, _)
Spawned(list, objects, entries, k) ==
    IF k > MaxRepos THEN list
    ELSE IF entries[k] # 0 /\ objects[entries[k]].enabled
    THEN Spawned(Append(list, NewLoop(entries[k])), objects, entries, k + 1)
    ELSE Spawned(list, objects, entries, k + 1)

\* a start() that sets the flag and creates no task
Started_NoTask(c) ==
    /\ running' = TRUE
    /\ UNCHANGED <<loops, monitor_tasks>>
    /\ starts' = [starts EXCEPT ![c] = "returned"]

\* start() from "self.running = True" on: the tasks are created and appended
\* to self.tasks
Started(c) ==
    LET after == Spawned(loops, repos, monitored_repos, 1)
    IN  /\ running' = TRUE
        /\ loops' = after
        /\ monitor_tasks' = monitor_tasks \o [i \in 1..(Len(after) - Len(loops)) |-> Len(loops) + i]
        /\ starts' = [starts EXCEPT ![c] = "returned"]

\* a loop that passes over no item because it was processed
Skipped_NoDedup(issue, processed) ==
    \/ issue.number = 0
    \/ issue.pull_request

\* the items the loop passes over: no number, a pull request, already processed
Skipped(issue, processed) ==
    \/ issue.number = 0
    \/ issue.pull_request
    \/ issue.number \in processed

\* a for loop that does not mark the new item as processed
RECURSIVE Scan_NoMark(_, _)
Scan_NoMark(todo, processed) ==
    IF todo = <<>> THEN [todo |-> <<>>, processed |-> processed]
    ELSE IF Skipped(Head(todo), processed) THEN Scan_NoMark(Tail(todo), processed)
    ELSE [todo |-> todo, processed |-> processed]

\* the for loop over the issues up to its next await: the items passed over are
\* dropped, the first new item is marked as processed and stays at the head
\* while its callbacks run
RECURSIVE Scan(_, _)
Scan(todo, processed) ==
    IF todo = <<>> THEN [todo |-> <<>>, processed |-> processed]
    ELSE IF Skipped(Head(todo), processed) THEN Scan(Tail(todo), processed)
    ELSE IF issue_callbacks = <<>> THEN Scan(Tail(todo), processed \cup {Head(todo).number})
    ELSE [todo |-> todo, processed |-> processed \cup {Head(todo).number}]

\* the loop after a scan: at the first callback of the new item, or at save_repo
AfterScan(loop, scan, failed) ==
    [loop EXCEPT !.todo = scan.todo,
                 !.pc = IF scan.todo = <<>> THEN "save" ELSE "callback",
                 !.cb = IF scan.todo = <<>> THEN 0 ELSE 1,
                 !.failed = failed]

\* add_repo(): init_redis, a new object under the key, save_repo
add_repo(key) ==
    /\ Len(repos) < MaxAdds
    /\ LET loaded == init_redis
           monitored == MonitoredRepo(key)
       IN  /\ repos' = Append(loaded.repos, monitored)
           /\ monitored_repos' = [loaded.monitored_repos EXCEPT ![key] = Len(loaded.repos) + 1]
           /\ saved' = [saved EXCEPT ![key] = Some(to_dict(monitored))]
    /\ redis' = TRUE
    /\ UNCHANGED <<tvars, svars, wvars, github, fetched, running, monitor_tasks, loops, calls, starts, stops>>

\* remove_repo(): init_redis; when the key is monitored its entry is deleted,
\* the persisted record is deleted and the call returns True; otherwise False.
\* The polling tasks are left as they are
remove_repo(key) ==
    /\ LET loaded == init_redis
       IN  /\ repos' = loaded.repos
           /\ IF loaded.monitored_repos[key] # 0
              THEN /\ monitored_repos' = [loaded.monitored_repos EXCEPT ![key] = 0]
                   /\ saved' = [saved EXCEPT ![key] = None]
              ELSE /\ monitored_repos' = loaded.monitored_repos
                   /\ UNCHANGED saved
    /\ redis' = TRUE
    /\ UNCHANGED <<tvars, svars, wvars, github, fetched, running, monitor_tasks, loops, calls, starts, stops>>

\* start(), up to its first await: nothing when running; with self.redis set
\* init_redis does not suspend and the tasks are created at once; otherwise the
\* call sets self.redis and waits for load_monitored_repos
start(c) ==
    /\ starts[c] = "idle"
    /\ IF running
       THEN /\ starts' = [starts EXCEPT ![c] = "returned"]
            /\ UNCHANGED <<redis, repos, monitored_repos, running, monitor_tasks, loops>>
       ELSE IF redis
       THEN /\ Started(c)
            /\ UNCHANGED <<redis, repos, monitored_repos>>
       ELSE /\ redis' = TRUE
            /\ starts' = [starts EXCEPT ![c] = "loading"]
            /\ UNCHANGED <<repos, monitored_repos, running, monitor_tasks, loops>>
    /\ UNCHANGED <<tvars, svars, wvars, github, fetched, saved, calls, stops>>

\* start(), after load_monitored_repos: the records are loaded, then the tasks
\* are created
start_loaded(c) ==
    /\ starts[c] = "loading"
    /\ LET loaded == Loaded(repos, monitored_repos, 1)
           after == Spawned(loops, loaded.repos, loaded.monitored_repos, 1)
       IN  /\ repos' = loaded.repos
           /\ monitored_repos' = loaded.monitored_repos
           /\ running' = TRUE
           /\ loops' = after
           /\ monitor_tasks' = monitor_tasks
                                 \o [i \in 1..(Len(after) - Len(loops)) |-> Len(loops) + i]
           /\ starts' = [starts EXCEPT ![c] = "returned"]
    /\ UNCHANGED <<tvars, svars, wvars, github, fetched, redis, saved, calls, stops>>

\* stop(), up to its await: the flag, task.cancel() for every task of
\* self.tasks, then gather when the list is not empty, clear() at once otherwise
stop ==
    /\ stops.pc = "idle"
    /\ running' = FALSE
    /\ loops' = [l \in 1..Len(loops) |->
                    IF l \in Elements(monitor_tasks) /\ Live(l)
                    THEN Finished(loops[l], "cancelled")
                    ELSE loops[l]]
    /\ IF monitor_tasks # <<>>
       THEN /\ stops' = [pc |-> "gather", before |-> Len(loops)]
            /\ UNCHANGED monitor_tasks
       ELSE /\ stops' = [pc |-> "idle", before |-> Len(loops)]
            /\ monitor_tasks' = <<>>
    /\ UNCHANGED <<tvars, svars, wvars, github, fetched, redis, saved, repos, monitored_repos, calls, starts>>

\* stop(), after gather: self.tasks.clear()
stop_gathered ==
    /\ stops.pc = "gather"
    /\ monitor_tasks' = <<>>
    /\ stops' = [stops EXCEPT !.pc = "idle"]
    /\ UNCHANGED <<tvars, svars, wvars, github, fetched, redis, saved, repos, monitored_repos, running, loops,
                   calls, starts>>

\* _poll_repo: the while test, at the first step of the task and after each
\* sleep; a cycle begins with the call of get_repo_issues
poll_begin(l) ==
    /\ l \in 1..Len(loops)
    /\ loops[l].pc \in {"new", "sleep"}
    /\ IF repos[loops[l].repo].enabled /\ running
       THEN /\ loops[l].cycles < MaxCycles
            /\ loops' = [loops EXCEPT ![l].pc = "fetch", ![l].cycles = @ + 1,
                                      ![l].failed = FALSE]
       ELSE loops' = [loops EXCEPT ![l] = Finished(@, "done")]
    /\ UNCHANGED <<tvars, svars, wvars, github, fetched, redis, saved, repos, monitored_repos, running,
                   monitor_tasks, calls, starts, stops>>

\* the object after a scan: the new items are in its processed set, and when the
\* for loop is over "repo.last_checked = datetime.now()" has run
Checked(repo, scan) ==
    [repo EXCEPT !.processed_issues = scan.processed,
                 !.last_checked = IF scan.todo = <<>> THEN now ELSE @]

\* _poll_repo: get_repo_issues returns the issues, or [] after an error of the
\* request, and the for loop runs up to its first callback or to save_repo
poll_fetched(l, issues, error) ==
    /\ l \in 1..Len(loops)
    /\ loops[l].pc = "fetch"
    /\ LET repo == loops[l].repo
           scan == Scan(IF error THEN <<>> ELSE issues, repos[repo].processed_issues)
       IN  /\ repos' = [repos EXCEPT ![repo] = Checked(@, scan)]
           /\ loops' = [loops EXCEPT ![l] = AfterScan(@, scan, error)]
           /\ fetched' = [fetched EXCEPT ![repos[repo].key] =
                                             @ \o (IF error THEN <<>> ELSE issues)]
    /\ UNCHANGED <<tvars, svars, wvars, github, redis, saved, monitored_repos, running, monitor_tasks,
                   calls, starts, stops>>

\* _poll_repo: the awaited callback returns or raises; the next callback of the
\* item follows, or the rest of the for loop
poll_callback(l, raises) ==
    /\ l \in 1..Len(loops)
    /\ loops[l].pc = "callback"
    /\ LET loop == loops[l]
           repo == loop.repo
           scan == Scan(Tail(loop.todo), repos[repo].processed_issues)
       IN  /\ calls' = [calls EXCEPT ![repos[repo].key] =
                            Append(@, [number |-> Head(loop.todo).number,
                                       callback |-> issue_callbacks[loop.cb],
                                       cycle |-> loop.cycles, raised |-> raises])]
           /\ IF loop.cb < Len(issue_callbacks)
              THEN /\ loops' = [loops EXCEPT ![l].cb = @ + 1, ![l].failed = @ \/ raises]
                   /\ UNCHANGED repos
              ELSE /\ loops' = [loops EXCEPT ![l] = AfterScan(@, scan, loop.failed \/ raises)]
                   /\ repos' = [repos EXCEPT ![repo] = Checked(@, scan)]
    /\ UNCHANGED <<tvars, svars, wvars, github, fetched, redis, saved, monitored_repos, running, monitor_tasks,
                   starts, stops>>

\* a loop that an error of save_repo ends
AfterSave_Dies(loop, fails) ==
    IF fails THEN Finished(loop, "done") ELSE [loop EXCEPT !.pc = "sleep"]

\* the loop after save_repo: its exception is caught by the except branch of
\* the cycle, and the sleep follows in both cases
AfterSave(loop, fails) == [loop EXCEPT !.pc = "sleep", !.failed = @ \/ fails]

\* _poll_repo: save_repo returns or raises, then the sleep begins
poll_saved(l, fails) ==
    /\ l \in 1..Len(loops)
    /\ loops[l].pc = "save"
    /\ LET repo == repos[loops[l].repo]
       IN  saved' = IF fails THEN saved ELSE [saved EXCEPT ![repo.key] = Some(to_dict(repo))]
    /\ loops' = [loops EXCEPT ![l] = AfterSave(@, fails)]
    /\ UNCHANGED <<tvars, svars, wvars, github, fetched, redis, repos, monitored_repos, running, monitor_tasks,
                   calls, starts, stops>>

\* the number of the first issue of a repository
FirstIssue == 101

\* what GitHub answers to get_repo_issues(repo, since=...): the issues of the
\* repository updated at or after "since", the newest first
\* (sort=created, direction=desc); the issues from i down
RECURSIVE Since(_, _, _)
Since(opened, since, i) ==
    IF i = 0 THEN <<>>
    ELSE IF opened[i] >= since
    THEN <<Issue(FirstIssue + i - 1)>> \o Since(opened, since, i - 1)
    ELSE Since(opened, since, i - 1)

\* the answer to the request of the loop
Answer(l) ==
    LET repo == repos[loops[l].repo]
    IN  Since(github[repo.key], repo.last_checked, Len(github[repo.key]))

\* somebody opens an issue in the repository on GitHub
open_issue(key) ==
    /\ Len(github[key]) < MaxIssues
    /\ github' = [github EXCEPT ![key] = Append(@, now)]
    /\ UNCHANGED <<tvars, svars, wvars, redis, saved, repos, monitored_repos, running,
                   monitor_tasks, loops, calls, fetched, starts, stops>>

\* what the requests of the cycles of a run return: overlapping lists, a list
\* with a pull request and an item without a number, a repeated item
FetchResults ==
    {<<Issue(101), Issue(102)>>,
     <<Issue(102), Issue(103)>>,
     <<PullRequest(104), Issue(0)>>,
     <<Issue(101), Issue(101)>>}

\* the tasks that a run can have
LoopIds == 1..(MaxStarts * MaxRepos)

\* one repository, added once before, during or after the one start() call, and
\* the cycles of its polling loop with every outcome of their requests,
\* callbacks and saves
NextPoll ==
    \/ repos = <<>> /\ add_repo(1)
    \/ start(1)
    \/ start_loaded(1)
    \/ \E l \in LoopIds : poll_begin(l)
    \/ \E l \in LoopIds, issues \in FetchResults : poll_fetched(l, issues, FALSE)
    \/ \E l \in LoopIds : poll_fetched(l, <<>>, TRUE)
    \/ \E l \in LoopIds, raises \in BOOLEAN : poll_callback(l, raises)
    \/ \E l \in LoopIds, fails \in BOOLEAN : poll_saved(l, fails)

SpecPoll == Init /\ [][NextPoll]_vars

\* the event loop runs every task that is ready: a started loop makes its first
\* step, a sleep ends, a request returns within its timeout, an awaited
\* callback and save_repo return or raise
PollFairness ==
    \A l \in LoopIds :
        /\ WF_vars(poll_begin(l))
        /\ WF_vars(\E issues \in FetchResults : poll_fetched(l, issues, FALSE))
        /\ WF_vars(\E raises \in BOOLEAN : poll_callback(l, raises))
        /\ WF_vars(\E fails \in BOOLEAN : poll_saved(l, fails))

SpecPollFair == SpecPoll /\ PollFairness

\* repositories added, the monitor started and stopped in every interleaving,
\* and polling loops that run one cycle each, whose request returns one issue
\* and whose callbacks and save succeed, before they sleep until they are
\* cancelled or find the monitor stopped
\* the calls of start() are numbered in the order they are made
NextStart(c) == \A d \in Starts : d < c => starts[d] # "idle"

NextMonitor ==
    \/ \E k \in RepoKeys : add_repo(k)
    \/ \E c \in Starts : NextStart(c) /\ start(c)
    \/ \E c \in Starts : start_loaded(c)
    \/ stop
    \/ stop_gathered
    \/ \E l \in LoopIds : l <= Len(loops) /\ (loops[l].cycles = 0 \/ ~running) /\ poll_begin(l)
    \/ \E l \in LoopIds : poll_fetched(l, <<Issue(101)>>, FALSE)
    \/ \E l \in LoopIds : poll_callback(l, FALSE)
    \/ \E l \in LoopIds : poll_saved(l, FALSE)

SpecMonitor == Init /\ [][NextMonitor]_vars

\* no start() or stop() call is suspended at its await
Quiet == stops.pc = "idle" /\ \A c \in Starts : starts[c] # "loading"

\* the same, with start() and stop() calls that do not overlap each other
NextLifecycle ==
    \/ \E k \in RepoKeys : add_repo(k)
    \/ \E c \in Starts : Quiet /\ NextStart(c) /\ start(c)
    \/ \E c \in Starts : start_loaded(c)
    \/ Quiet /\ stop
    \/ stop_gathered
    \/ \E l \in LoopIds : l <= Len(loops) /\ (loops[l].cycles = 0 \/ ~running) /\ poll_begin(l)
    \/ \E l \in LoopIds : poll_fetched(l, <<Issue(101)>>, FALSE)
    \/ \E l \in LoopIds : poll_callback(l, FALSE)
    \/ \E l \in LoopIds : poll_saved(l, FALSE)

SpecLifecycle == Init /\ [][NextLifecycle]_vars

\* repositories are added and removed while the monitor is started and polls
NextRepos ==
    \/ \E k \in RepoKeys : add_repo(k)
    \/ \E k \in RepoKeys : remove_repo(k)
    \/ \E c \in Starts : Quiet /\ NextStart(c) /\ start(c)
    \/ \E c \in Starts : start_loaded(c)
    \/ \E l \in LoopIds : l <= Len(loops) /\ loops[l].cycles = 0 /\ poll_begin(l)
    \/ \E l \in LoopIds : poll_fetched(l, <<Issue(101)>>, FALSE)
    \/ \E l \in LoopIds : poll_callback(l, FALSE)
    \/ \E l \in LoopIds : poll_saved(l, FALSE)

SpecRepos == Init /\ [][NextRepos]_vars

\* one repository whose issues are opened while its loop polls and time passes;
\* a request is answered from the issues of the moment, or fails
NextSince ==
    \/ repos = <<>> /\ add_repo(1)
    \/ repos # <<>> /\ start(1)
    \/ loops # <<>> /\ open_issue(1)
    \/ \E l \in LoopIds : poll_begin(l)
    \/ \E l \in LoopIds : l <= Len(loops) /\ poll_fetched(l, Answer(l), FALSE)
    \/ \E l \in LoopIds : poll_fetched(l, <<>>, TRUE)
    \/ \E l \in LoopIds : poll_callback(l, FALSE)
    \/ \E l \in LoopIds : poll_saved(l, FALSE)
    \/ Tick

SpecSince == Init /\ [][NextSince]_vars

\* every operation with every input
\* -------------------------------------------------- calls that overlap
\* the callers make their calls in the order of their numbers
NextCaller(c) == \A d \in Callers : d < c => callers[d].pc # "idle"

\* update() calls that append a log line
RaceArgs ==
    {Args(None, None, Some("a"), None, None, None),
     Args(None, None, Some("b"), None, None, None)}

\* one task and callers whose update() calls overlap at their awaits
NextRace ==
    \/ nextId = 1 /\ Create(ScenarioA)
    \/ \E c \in Callers, a \in RaceArgs : NextCaller(c) /\ update_get(c, 1, a)
    \/ \E c \in Callers : update_save(c)
    \/ Tick

SpecRace == Init /\ [][NextRace]_vars

\* update() calls of the runner: a log line, the two outcomes of the workflow
InFlightArgs ==
    {Args(None, None, Some("a"), None, None, None),
     Args(None, None, None, Some(COMPLETED), Some([pr |-> 7]), None),
     Args(None, None, None, Some(FAILED), None, Some("e"))}

\* one task and callers whose update(), cancel() and delete() calls overlap;
\* the id is deleted by a caller that has learnt it from create()
NextInFlight ==
    \/ nextId = 1 /\ Create(ScenarioA)
    \/ \E c \in Callers, a \in InFlightArgs : NextCaller(c) /\ update_get(c, 1, a)
    \/ \E c \in Callers : update_save(c)
    \/ \E c \in Callers : NextCaller(c) /\ cancel_get(c, 1)
    \/ \E c \in Callers : cancel_save(c)
    \/ \E c \in Callers : nextId > 1 /\ NextCaller(c) /\ delete_key(c, 1)
    \/ \E c \in Callers : delete_srem(c)
    \/ Get(1)

SpecInFlight == Init /\ [][NextInFlight]_vars

Next ==
    \/ \E r \in Requests : Create(r)
    \/ \E i \in Ids : Get(i)
    \/ \E s \in StatusArgs : GetAll(s)
    \/ \E s \in StatusArgs, b \in BOOLEAN : ListTasks(s, b)
    \/ GetActiveTasks
    \/ HealthCheck
    \/ \E i \in Ids, a \in LifeArgs \cup RecordArgs \cup ListArgs \cup StoreArgs
                             \cup CleanupArgs \cup RetryArgs \cup StreamArgs : Update(i, a)
    \/ \E i \in Ids : Cancel(i)
    \/ \E i \in Ids : Delete(i)
    \/ \E h \in AgeArgs : CleanupOldTasks(h)
    \/ \E i \in Ids : RetryTask(i)
    \/ \E m \in {"", "a"} : AddLog(m)
    \/ MarkStarted
    \/ \E v \in Variants, i \in Ids : Connect(v, i)
    \/ Poll
    \/ Final
    \/ \E t \in Ids, s \in Sockets : connect(t, s)
    \/ \E s \in Sockets, failed \in BOOLEAN : connect_lookup(s, failed)
    \/ \E j \in Broadcasts, t \in Ids : broadcast_task_update(j, t, "log", "a")
    \/ \E j \in Jobs : send_personal_message(j)
    \/ \E t \in Ids, s \in Sockets : disconnect(t, s)
    \/ \E s \in Sockets : PeerClose(s)
    \/ \E s \in Sockets : task_websocket(s)
    \/ \E k \in RepoKeys : add_repo(k)
    \/ \E k \in RepoKeys : remove_repo(k)
    \/ \E k \in RepoKeys : open_issue(k)
    \/ \E l \in LoopIds : l <= Len(loops) /\ poll_fetched(l, Answer(l), FALSE)
    \/ \E c \in Starts : start(c)
    \/ \E c \in Starts : start_loaded(c)
    \/ stop
    \/ stop_gathered
    \/ \E l \in LoopIds : poll_begin(l)
    \/ \E l \in LoopIds, issues \in FetchResults : poll_fetched(l, issues, FALSE)
    \/ \E l \in LoopIds : poll_fetched(l, <<>>, TRUE)
    \/ \E l \in LoopIds, raises \in BOOLEAN : poll_callback(l, raises)
    \/ \E l \in LoopIds, fails \in BOOLEAN : poll_saved(l, fails)
    \/ \E c \in Callers, i \in Ids, a \in RaceArgs \cup InFlightArgs : update_get(c, i, a)
    \/ \E c \in Callers : update_save(c)
    \/ \E c \in Callers, i \in Ids : cancel_get(c, i)
    \/ \E c \in Callers : cancel_save(c)
    \/ \E c \in Callers, i \in Ids : delete_key(c, i)
    \/ \E c \in Callers : delete_srem(c)
    \/ Tick

Spec == Init /\ [][Next]_vars

\* ------------------------------------------------------------------ claims
StoredTask(i) == store[i][1]

\* C1: once the stored status of a task is completed, failed or cancelled, no
\* later call changes the stored status of that task.
C1_TerminalAbsorbing ==
    [][\A i \in Ids :
          (store[i] # None /\ StoredTask(i).status \in TerminalStatuses /\ store'[i] # None)
              => store'[i][1].status = StoredTask(i).status]_vars

\* C2: an update that carries a non-terminal status, on a task stored as
\* completed with progress 1.0, leaves the stored progress at 1.0.
C2_CompletedProgressKept ==
    [][\A a \in LifeArgs :
          (/\ store[1] # None
           /\ StoredTask(1).status = COMPLETED
           /\ StoredTask(1).progress = ProgressOne
           /\ a.status # None
           /\ a.status[1] \in ActiveStatuses
           /\ Update(1, a))
              => store'[1][1].progress >= ProgressOne]_vars

\* the branch name C3 states for a request: the supplied branch (a blank name
\* counts as none supplied), or the branch of the issue when no branch was
\* supplied and an issue number was given
StatedBranch(request, actual) ==
    IF request.branch_name \notin {None, Some("")} THEN request.branch_name
    ELSE IF request.issue_number # None THEN Some(IssueBranch(request.issue_number[1]))
    ELSE actual

\* C3: create returns a record with a fresh non-empty id, status pending and
\* progress 0.0, which get(id) returns and whose id is in the index; its
\* branch_name is the supplied branch or, when none was supplied and an issue
\* number was given, the branch of that issue.
C3_Create ==
    [][\A r \in Requests :
          Create(r)
              => /\ ret'.val # None
                 /\ ret'.val[1].id \in Ids
                 /\ ret'.val[1].id \notin 1..(nextId - 1)
                 /\ ret'.val[1].status = PENDING
                 /\ ret'.val[1].progress = 0
                 /\ store'[ret'.val[1].id] = ret'.val
                 /\ ret'.val[1].id \in index'
                 /\ ret'.val[1].branch_name = StatedBranch(r, ret'.val[1].branch_name)]_vars

\* C4: once started_at of a task is set, neither an update of the stored
\* record nor a helper called on the Task object changes it.
C4_StartedAtSetOnce ==
    [][/\ \A i \in Ids :
            (store[i] # None /\ StoredTask(i).started_at # None /\ store'[i] # None)
                => store'[i][1].started_at = StoredTask(i).started_at
       /\ (HasTask /\ Held.started_at # None /\ (MarkStarted \/ \E m \in {"", "a"} : AddLog(m)))
                => ret'.val[1].started_at = Held.started_at]_vars

\* C5 as stated: an update with a terminal status stores a completed_at, and the
\* stored progress is 1.0 for completed and otherwise the progress argument of
\* the call, or the value it had when the call has none.
C5_TerminalUpdateLiteral ==
    [][\A a \in LifeArgs :
          (store[1] # None /\ a.status # None /\ a.status[1] \in TerminalStatuses
             /\ Update(1, a))
              => /\ store'[1] # None
                 /\ store'[1][1].completed_at # None
                 /\ store'[1][1].progress =
                        IF a.status[1] = COMPLETED THEN ProgressOne
                        ELSE IF a.progress # None THEN a.progress[1]
                        ELSE StoredTask(1).progress]_vars

\* C5 (amended): an update with a terminal status stores a completed_at, and the
\* stored progress is 1.0 for completed and otherwise the progress argument of
\* the call clamped to [0.0, 1.0], or the value it had when the call has none.
C5_TerminalUpdate ==
    [][\A a \in LifeArgs :
          (store[1] # None /\ a.status # None /\ a.status[1] \in TerminalStatuses
             /\ Update(1, a))
              => /\ store'[1] # None
                 /\ store'[1][1].completed_at = Some(now)
                 /\ store'[1][1].progress =
                        IF a.status[1] = COMPLETED THEN ProgressOne
                        ELSE IF a.progress # None
                             THEN (IF a.progress[1] < 0 THEN 0
                                   ELSE IF a.progress[1] > ProgressOne THEN ProgressOne
                                   ELSE a.progress[1])
                        ELSE StoredTask(1).progress]_vars

\* a failed task whose progress is neither 0.0 nor 1.0 was returned by update
C5_Witness ==
    /\ ret.op = "update"
    /\ ret.val # None
    /\ ret.val[1].status = FAILED
    /\ ret.val[1].progress = 4
    /\ ret.val[1].completed_at # None
    /\ store[1] = ret.val

\* C6: cancel of a task stored with a terminal status returns the stored record
\* and writes nothing; cancel of a task stored with an active status stores the
\* status cancelled and a completed_at and leaves the progress as it was.
C6_Cancel ==
    [][(store[1] # None /\ Cancel(1))
          => IF StoredTask(1).status \in TerminalStatuses
             THEN /\ ret'.val = store[1]
                  /\ UNCHANGED <<store, expire, index>>
             ELSE /\ store'[1] # None
                  /\ store'[1][1].status = CANCELLED
                  /\ store'[1][1].completed_at = Some(now)
                  /\ store'[1][1].progress = StoredTask(1).progress
                  /\ ret'.val = store'[1]]_vars

\* cancel of a completed task returned the record, whose time to live is the one
\* of an earlier save
C6_Witness ==
    /\ ret.op = "cancel"
    /\ ret.val # None
    /\ ret.val[1].status = COMPLETED
    /\ store[1] = ret.val
    /\ expire[1] < now + TTL

\* C7: get, update and cancel for an id without a stored record return absent
\* and leave the store, the expiry times and the index as they were.
C7_AbsentIsNoOp ==
    [][\A i \in Ids :
          (store[i] = None /\ (Get(i) \/ Cancel(i) \/ \E a \in StoreArgs : Update(i, a)))
              => /\ ret'.val = None
                 /\ UNCHANGED <<store, expire, index>>]_vars

\* update of an expired task, whose id is still in the index, returned absent
C7_Witness ==
    /\ ret.op = "update"
    /\ ret.val = None
    /\ ret.id \in index
    /\ store[ret.id] = None

\* C8: every stored record has updated_at >= created_at, and every update and
\* every cancel of an active task stores the time of the call as updated_at,
\* which is not earlier than the updated_at stored before.
C8_UpdatedAt ==
    [][\A i \in Ids :
          /\ store'[i] # None => store'[i][1].updated_at >= store'[i][1].created_at
          /\ ((store[i] # None /\ \E a \in StoreArgs : Update(i, a))
                => /\ store'[i][1].updated_at = now
                   /\ store'[i][1].updated_at >= StoredTask(i).updated_at)
          /\ ((store[i] # None /\ is_active(StoredTask(i)) /\ Cancel(i))
                => /\ store'[i][1].updated_at = now
                   /\ store'[i][1].updated_at >= StoredTask(i).updated_at)]_vars

\* an update that touched no field was stored later than the task was created
C8_Witness ==
    /\ ret.op = "update"
    /\ ret.val # None
    /\ store[ret.id] = ret.val
    /\ ret.val[1].logs = <<>>
    /\ ret.val[1].status = PENDING
    /\ ret.val[1].updated_at > ret.val[1].created_at

\* C9: add_log appends exactly one entry, the formatted message, at the end of
\* the log and leaves every earlier entry at its position with its value.
C9_AppendOnly ==
    [][\A m \in {"", "a"} :
          AddLog(m)
              => /\ Len(ret'.val[1].logs) = Len(Held.logs) + 1
                 /\ SubSeq(ret'.val[1].logs, 1, Len(Held.logs)) = Held.logs
                 /\ ret'.val[1].logs[Len(Held.logs) + 1] = LogLine(now, m)]_vars

\* two add_log calls in a row left their two lines in call order
C9_Witness ==
    /\ ret.op = "add_log"
    /\ Len(ret.val[1].logs) = 2
    /\ ret.val[1].logs[1][2] = "a"
    /\ ret.val[1].logs[2][2] = ""
    /\ store[ret.id] # None
    /\ StoredTask(ret.id).logs = <<>>

\* C10: get_all returns each task whose id is in the index and whose record is
\* in the store, restricted to the given status, once, newest created first.
C10_GetAll ==
    [][\A s \in {None, Some(PENDING), Some(RUNNING), Some(COMPLETED)} :
          GetAll(s)
              => /\ {ret'.val[k] : k \in 1..Len(ret'.val)}
                        = {StoredTask(i) : i \in {j \in index : store[j] # None
                             /\ (s = None \/ StoredTask(j).status = s[1])}}
                 /\ \A k, l \in 1..Len(ret'.val) : k # l => ret'.val[k] # ret'.val[l]
                 /\ \A k \in 1..(Len(ret'.val) - 1) :
                        ret'.val[k].created_at >= ret'.val[k + 1].created_at]_vars

\* the unfiltered list of two tasks created at different times, newest first
C10_Witness ==
    /\ ret.op = "get_all"
    /\ Len(ret.val) = 2
    /\ ret.val[1].created_at > ret.val[2].created_at
    /\ ret.val[1].status # ret.val[2].status

\* the stored records whose status is pending, running or reviewing
ActiveStored ==
    {store[i][1] : i \in {j \in index : store[j] # None /\ store[j][1].status \in ActiveStatuses}}

\* C11: list_tasks with active_only returns the stored tasks whose status is
\* pending, running or reviewing, each once, newest created first, and no
\* completed, failed or cancelled task, whatever status filter is passed.
C11_ActiveOnly ==
    [][\A s \in {None, Some(RUNNING)} :
          ListTasks(s, TRUE)
              => /\ {ret'.val[k] : k \in 1..Len(ret'.val)} = ActiveStored
                 /\ Len(ret'.val) = Cardinality(ActiveStored)
                 /\ \A k \in 1..(Len(ret'.val) - 1) :
                        ret'.val[k].created_at >= ret'.val[k + 1].created_at
                 /\ \A k \in 1..Len(ret'.val) :
                        ret'.val[k].status \notin TerminalStatuses]_vars

\* the active listing holds the reviewing task alone while a completed task,
\* created later, is in the store
C11_Witness ==
    /\ ret.op = "list_active"
    /\ Len(ret.val) = 1
    /\ ret.val[1].status = REVIEWING
    /\ \E i \in index : /\ store[i] # None
                        /\ store[i][1].status = COMPLETED
                        /\ store[i][1].created_at > ret.val[1].created_at

\* C12: get_active_tasks returns every stored task whose status is in the
\* active set, and the active_tasks of the health endpoint is the number of
\* stored tasks for which is_active holds.
C12_ActiveTasks ==
    [][/\ GetActiveTasks => {ret'.val[k] : k \in 1..Len(ret'.val)} = ActiveStored
       /\ HealthCheck => ret'.val[1].active_tasks = Cardinality(ActiveStored)]_vars

\* the ids of the tasks stored with a terminal status and a completed_at earlier
\* than now - max_age
OldTerminal(max_age_hours) ==
    {i \in Ids : /\ store[i] # None
                 /\ store[i][1].status \in TerminalStatuses
                 /\ store[i][1].completed_at # None
                 /\ store[i][1].completed_at[1] < now - max_age_hours * SecondsPerHour}

\* C13: after cleanup_old_tasks(max_age) every task that was terminal with a
\* completed_at older than now - max_age is gone from the store and the index,
\* every other task keeps its record and its index entry, and the returned count
\* is the number of records removed.
C13_Cleanup ==
    [][\A h \in AgeArgs :
          CleanupOldTasks(h)
              => /\ \A i \in OldTerminal(h) : store'[i] = None /\ i \notin index'
                 /\ \A i \in Ids \ OldTerminal(h) :
                        store'[i] = store[i] /\ (i \in index' <=> i \in index)
                 /\ ret'.val = Some(Cardinality({i \in Ids : store[i] # None
                                                             /\ store'[i] = None}))]_vars

\* the time of the last save of a stored record: its expiry less the window
LastSave(i) == expire[i] - TTL

\* C14: every save (create, update of a stored record, cancel of an active
\* task) sets the expiry of the record to a full window after the call; when
\* the clock advances, a record whose last save is less than a window old stays
\* as it is and a record whose last save is a window old is absent from get,
\* while the index keeps its id; a record in the store was saved less than a
\* window ago.
C14_SlidingTTL ==
    [][/\ (nextId = 1 /\ Create(ScenarioA)) => expire'[1] = now + TTL
       /\ (store[1] # None /\ \E a \in LifeArgs : Update(1, a)) => expire'[1] = now + TTL
       /\ (store[1] # None /\ is_active(StoredTask(1)) /\ Cancel(1)) => expire'[1] = now + TTL
       /\ Tick => \A i \in Ids :
                    /\ (store[i] # None /\ now' < LastSave(i) + TTL)
                          => store'[i] = store[i] /\ expire'[i] = expire[i]
                    /\ (store[i] # None /\ now' >= LastSave(i) + TTL)
                          => get(i)' = None
                    /\ i \in index => i \in index'
       /\ \A i \in Ids : store'[i] # None => now' - LastSave(i)' < TTL]_vars

\* a record that a later save kept in the store beyond the window of its creation
C14_Witness ==
    /\ store[1] # None
    /\ 1 \in index
    /\ now >= StoredTask(1).created_at + TTL
    /\ StoredTask(1).updated_at > StoredTask(1).created_at

\* what C15 says of the task retry returns apart from the stored log line: a
\* pending task with a fresh id and the input fields of the original, with
\* none of its progress, log, result or error
RetryClones(original, new_task) ==
    /\ new_task.id \in Ids \ 1..(nextId - 1)
    /\ new_task.status = PENDING
    /\ new_task.type = original.type
    /\ new_task.issue_number = original.issue_number
    /\ new_task.pr_number = original.pr_number
    /\ new_task.branch_name = original.branch_name
    /\ new_task.max_iterations = original.max_iterations
    /\ new_task.progress = 0
    /\ new_task.result = None
    /\ new_task.error = None
    /\ \A k \in 1..Len(new_task.logs) : new_task.logs[k][2] = RetryMessage(original.id)

\* C15: retry of a stored task returns a new pending task with a fresh id and
\* the type, issue number, PR number, branch name and iteration limit of the
\* original, without its progress, logs, result or error; the new task is in
\* the store and its stored log holds the line that names the original id.
C15_Retry ==
    [][\A i \in Ids :
          (store[i] # None /\ RetryTask(i))
              => /\ ret'.val # None
                 /\ RetryClones(StoredTask(i), ret'.val[1])
                 /\ store'[ret'.id] # None
                 /\ RetryClones(StoredTask(i), store'[ret'.id][1])
                 /\ \E k \in 1..Len(store'[ret'.id][1].logs) :
                        store'[ret'.id][1].logs[k][2] = RetryMessage(i)]_vars

\* C16: a log stream opened for an id without a stored record yields exactly
\* one error event and returns; no step after that yields an event or fetches
\* the task again.
C16_AbsentAtConnect ==
    [][/\ \A i \in Ids :
            (store[i] = None /\ Connect(LOGS, i))
                => /\ events' = <<ErrorEvent("not found", i)>>
                   /\ sse_pc' = "closed"
                   /\ polls' = 0
       /\ (sse_pc = "closed" /\ sse_task = None /\ polls = 0)
                => /\ UNCHANGED <<events, polls, sse_pc, sse_task>>
                   /\ ~ENABLED Poll
                   /\ ~ENABLED Final]_vars

\* a log stream was opened for a task whose record had expired: one error event,
\* the stream closed, the id still in the index
C16_Witness ==
    /\ sse_variant = LOGS
    /\ sse_pc = "closed"
    /\ sse_task = None
    /\ Len(events) = 1
    /\ events[1].event = "error"
    /\ polls = 0
    /\ sse_task_id \in index

\* the name of the final event of each endpoint
TerminalEvent(variant) == IF variant = LOGS THEN "done" ELSE "complete"

\* the events are the backlog of the task: for stream_logs one log event for each
\* log line, in order; for stream_task_updates one init event
IsBacklog(variant, task, evs) ==
    IF variant = LOGS
    THEN /\ Len(evs) = Len(task.logs)
         /\ \A k \in 1..Len(evs) : evs[k].event = "log" /\ evs[k].data.message = task.logs[k]
    ELSE /\ Len(evs) = 1
         /\ evs[1].event = "init"

\* C17: a stream opened for a task stored with a terminal status yields the
\* backlog and goes to the final event without a polling cycle; the final event
\* (done, or complete for the full-update stream) is the next and last event.
C17_TerminalAtConnect ==
    [][/\ \A v \in Variants, i \in Ids :
            (store[i] # None /\ StoredTask(i).status \in TerminalStatuses /\ Connect(v, i))
                => /\ IsBacklog(v, StoredTask(i), events')
                   /\ sse_pc' = "final"
                   /\ polls' = 0
       /\ (sse_pc = "final" /\ polls = 0 /\ sse_task # None)
                => /\ ~ENABLED Poll
                   /\ Final => /\ sse_pc' = "closed"
                               /\ Len(events') = Len(events) + 1
                               /\ SubSeq(events', 1, Len(events)) = events
                               /\ events'[Len(events')].event = TerminalEvent(sse_variant)
                               /\ polls' = 0
                   /\ ~Final => UNCHANGED <<events, polls, sse_pc>>]_vars

IsLogEvent(e) == e.event = "log"

\* the messages of the log events among evs, in the order of their emission
LogMessages(evs) ==
    LET sel == SelectSeq(evs, IsLogEvent)
    IN  [k \in 1..Len(sel) |-> sel[k].data.message]

C19_Disappeared ==
    [][/\ (sse_pc = "sleep" /\ store[sse_task_id] = None /\ Poll)
                => /\ events' = Append(events, ErrorEvent("disappeared", sse_task_id))
                   /\ sse_pc' = "final"
       /\ (sse_pc = "final" /\ sse_task = None)
                => /\ ~ENABLED Poll
                   /\ Final => /\ sse_pc' = "closed"
                               /\ Len(events') = Len(events) + 1
                               /\ SubSeq(events', 1, Len(events)) = events
                               /\ events'[Len(events')].event = TerminalEvent(sse_variant)
                               /\ polls' = polls
                   /\ ~Final => UNCHANGED <<events, polls, sse_pc>>]_vars

\* the stream has ended: the generator returned or an exception ended it
Ended(pc) == pc \in {"closed", "raised"}

\* C20: the polling cycle that first finds the task with a terminal status
\* yields the log lines not sent so far and leaves the loop; no further cycle
\* follows and the final event (done, or complete) is the last event, after
\* which the stream is closed; and a stream ends only when the task it fetched
\* last was absent or had a terminal status.
C20_EndsWhenTerminal ==
    [][/\ (/\ sse_pc = "sleep"
           /\ store[sse_task_id] # None
           /\ StoredTask(sse_task_id).status \in TerminalStatuses
           /\ Poll)
                => /\ sse_pc' = "final"
                   /\ Len(events') >= Len(events)
                   /\ SubSeq(events', 1, Len(events)) = events
                   /\ sse_variant = LOGS =>
                          LogMessages(events') = StoredTask(sse_task_id).logs
       /\ (sse_pc = "final" /\ sse_task # None)
                => /\ ~ENABLED Poll
                   /\ Final => /\ sse_pc' = "closed"
                               /\ Len(events') = Len(events) + 1
                               /\ SubSeq(events', 1, Len(events)) = events
                               /\ events'[Len(events')].event = TerminalEvent(sse_variant)
                               /\ polls' = polls
                   /\ ~Final => UNCHANGED <<events, polls, sse_pc>>
       /\ (~Ended(sse_pc) /\ Ended(sse_pc'))
                => sse_task' = None \/ ~is_active(sse_task'[1])]_vars

\* whether a socket is registered under a task id
Registered(task_id, websocket) == websocket \in Elements(active_connections[task_id])

\* C21: a disconnect() call for a socket that is not registered under the task
\* id (never registered, already removed, a second call while other sockets of
\* the task id remain) does not raise and leaves the registry unchanged, in a
\* direct call and in the call of the endpoint handler
C21_DisconnectIdempotent ==
    [][\A t \in Ids, s \in Sockets :
          /\ (disconnect(t, s) /\ ~Registered(t, s))
                => (~disconnected'.raised /\ UNCHANGED active_connections)
          /\ (task_websocket(s) /\ jobs[s].task_id = t /\ ~Registered(t, s))
                => (endpoint'[s] = "closed" /\ UNCHANGED active_connections)]_vars

\* C22: in every turn of the loop of a broadcast, under every interleaving with
\* connect, disconnect and other sends, the call does not raise and goes on to
\* the rest of its snapshot, and a socket whose send failed is not registered
\* afterwards
C22_BroadcastIsolated ==
    [][\A j \in Broadcasts :
          send_personal_message(j)
             => LET job == jobs[j]
                    connection == Head(job.todo)
                IN  /\ jobs'[j].pc # "raised"
                    /\ jobs'[j].todo = Tail(job.todo)
                    /\ (inbox'[connection] = inbox[connection])
                          => connection \notin Elements(active_connections'[job.task_id])]_vars

\* C23: when connect() returns after its lookup found the task, the socket is
\* registered under the task id and has been sent an init message with the task
C23_InitOnConnect ==
    [][\A s \in Sockets :
          (jobs[s].pc # "returned" /\ jobs'[s].pc = "returned" /\ jobs'[s].task # None)
             => /\ s \in Elements(active_connections'[jobs[s].task_id])
                /\ \E k \in 1..Len(inbox'[s]) : inbox'[s][k] = InitMessage(jobs'[s].task[1])]_vars

\* C24: when connect() ends without a task (the lookup raised or found nothing),
\* it has returned, the socket is registered under the task id and has received
\* an error message
C24_ErrorOnConnect ==
    [][\A s \in Sockets :
          (jobs[s].pc \in {"lookup", "sending"} /\ jobs'[s].pc \in {"returned", "raised"}
              /\ jobs'[s].task = None)
             => /\ jobs'[s].pc = "returned"
                /\ s \in Elements(active_connections'[jobs[s].task_id])
                /\ \E k \in 1..Len(inbox'[s]) : inbox'[s][k] = ErrorMessage]_vars

\* the numbers that callback c was invoked with for repository k, in order
RECURSIVE Numbers(_, _)
Numbers(log, c) ==
    IF log = <<>> THEN <<>>
    ELSE IF Head(log).callback = c THEN <<Head(log).number>> \o Numbers(Tail(log), c)
    ELSE Numbers(Tail(log), c)

CalledWith(k, c) == Numbers(calls[k], c)

\* the place where a number first appears in the items fetched for repository k
FirstSeen(k, number) ==
    CHOOSE i \in 1..Len(fetched[k]) :
        /\ fetched[k][i].number = number
        /\ \A j \in 1..(i - 1) : fetched[k][j].number # number

\* C25: for every repository and callback, the numbers the callback was invoked
\* with are numbers of fetched issues, none occurs twice, and they are in the
\* order in which the numbers first appeared in the fetched lists
C25_OncePerItem ==
    \A k \in RepoKeys, c \in Elements(issue_callbacks) :
        LET with == CalledWith(k, c)
        IN  /\ \A i \in 1..Len(with) :
                  \E j \in 1..Len(fetched[k]) : fetched[k][j] = Issue(with[i])
            /\ \A i, j \in 1..Len(with) :
                  i < j => FirstSeen(k, with[i]) < FirstSeen(k, with[j])

\* two cycles returned [101, 102] and [102, 103], and both callbacks have been
\* invoked with 101, 102, 103
C25_Witness ==
    /\ fetched[1] = <<Issue(101), Issue(102), Issue(102), Issue(103)>>
    /\ CalledWith(1, 1) = <<101, 102, 103>>
    /\ CalledWith(1, 2) = <<101, 102, 103>>
    /\ Len(calls[1]) = 6

\* the callbacks that follow callback c in the list of callbacks
After(c) == {d \in Elements(issue_callbacks) : d > c}

\* C26: a callback is invoked for a number that is already in the processed-set;
\* after an invocation, raising or not, the loop is at the next callback of the
\* item or, after the last one, has gone through the rest of the list to
\* save_repo; a save that does not fail stores the processed-set; when the
\* cycle is over every fetched issue is in the processed-set and every callback
\* has been invoked with it; and no callback is invoked twice with one number
C26_CallbackIsolated ==
    /\ [][\A l \in LoopIds, r \in BOOLEAN :
             poll_callback(l, r)
                => /\ Head(loops[l].todo).number \in repos[loops[l].repo].processed_issues
                   /\ IF After(issue_callbacks[loops[l].cb]) # {}
                      THEN /\ loops'[l].pc = "callback"
                           /\ loops'[l].todo = loops[l].todo
                           /\ loops'[l].cb = loops[l].cb + 1
                      ELSE /\ loops'[l].pc \in {"callback", "save"}
                           /\ \A i \in 1..Len(loops[l].todo) :
                                  ~loops[l].todo[i].pull_request /\ loops[l].todo[i].number # 0
                                     => loops[l].todo[i].number
                                            \in repos'[loops[l].repo].processed_issues]_vars
    /\ [][\A l \in LoopIds :
             poll_saved(l, FALSE)
                => saved'[repos[loops[l].repo].key]
                      = Some(to_dict(repos[loops[l].repo]))]_vars
    /\ [](\A l \in 1..Len(loops) :
             loops[l].pc \in {"save", "sleep"}
                => LET k == repos[loops[l].repo].key
                   IN  \A j \in 1..Len(fetched[k]) :
                          ~fetched[k][j].pull_request /\ fetched[k][j].number # 0
                             => /\ fetched[k][j].number \in repos[loops[l].repo].processed_issues
                                /\ \A c \in Elements(issue_callbacks) :
                                      fetched[k][j].number \in Elements(CalledWith(k, c)))
    /\ [](\A k \in RepoKeys : \A i, j \in 1..Len(calls[k]) :
             (i < j /\ calls[k][i].callback = calls[k][j].callback)
                => calls[k][i].number # calls[k][j].number)

\* the first callback raised for 101; the second callback was invoked for 101
\* and both for 102, the cycle saved its record, and the next cycle, which
\* fetched 101 again, invoked nothing
C26_Witness ==
    /\ Len(loops) = 1
    /\ loops[1].pc = "sleep"
    /\ loops[1].cycles = 2
    /\ fetched[1] = <<Issue(101), Issue(102), Issue(101), Issue(101)>>
    /\ Len(calls[1]) = 4
    /\ calls[1][1].raised /\ calls[1][1].number = 101 /\ calls[1][1].cycle = 1
    /\ calls[1][2].number = 101 /\ calls[1][2].callback = 2
    /\ calls[1][3].number = 102 /\ calls[1][4].number = 102
    /\ saved[1] = Some(to_dict(repos[loops[1].repo]))
    /\ repos[loops[1].repo].processed_issues = {101, 102}

\* loop l is inside a cycle that has met a failure
FailedCycle(l) ==
    /\ l <= Len(loops)
    /\ loops[l].pc \in {"callback", "save"}
    /\ loops[l].failed

\* loop l sleeps after a cycle that met a failure
Asleep(l) ==
    /\ l <= Len(loops)
    /\ loops[l].pc = "sleep"
    /\ loops[l].failed

\* loop l has begun its cycle n
Begun(l, n) ==
    /\ l <= Len(loops)
    /\ loops[l].cycles = n
    /\ loops[l].pc = "fetch"

\* the repository of loop l is enabled
Polled(l) == l <= Len(loops) /\ repos[loops[l].repo].enabled

\* C30: a failed request, a raising callback and a failed save leave the loop
\* inside its cycle or asleep; a cycle that met a failure is followed by the
\* sleep, and while the monitor is running and the repository enabled the
\* sleep is followed by the next cycle
C30_LoopSurvives ==
    /\ [][\A l \in LoopIds :
             (\/ poll_fetched(l, <<>>, TRUE)
              \/ poll_callback(l, TRUE)
              \/ poll_saved(l, TRUE))
                => /\ loops'[l].pc \in {"callback", "save", "sleep"}
                   /\ loops'[l].failed]_vars
    /\ \A l \in LoopIds : FailedCycle(l) ~> Asleep(l)
    /\ \A l \in LoopIds :
          (Asleep(l) /\ loops[l].cycles < MaxCycles)
             ~> (\/ \E n \in 2..MaxCycles : Begun(l, n)
                 \/ ~running
                 \/ ~Polled(l))

\* the first cycle fetched [101, 102], its first callback raised and its save
\* failed, and the loop is in its second cycle
C30_Witness ==
    /\ Begun(1, 2)
    /\ running
    /\ fetched[1] = <<Issue(101), Issue(102)>>
    /\ Len(calls[1]) = 4
    /\ calls[1][1].raised
    /\ repos[loops[1].repo].processed_issues = {101, 102}
    /\ saved[1] = Some(to_dict(MonitoredRepo(1)))

\* the object has a polling task, live or not
HasLoop(list, r) == \E l \in 1..Len(list) : list[l].repo = r

\* the object is being polled: it has a polling task that can still run
Polling(list, r) ==
    \E l \in 1..Len(list) : list[l].repo = r /\ list[l].pc \notin {"done", "cancelled"}

\* add_repo persists the record of a new object with no processed issue and
\* creates no task; no object gets a task outside a start() call
AddOnlyRegisters ==
    /\ \A k \in RepoKeys : add_repo(k) =>
          /\ saved'[k] = Some([key |-> k, last_checked |-> now, enabled |-> TRUE,
                               processed_issues |-> {}])
          /\ repos'[monitored_repos'[k]].processed_issues = {}
          /\ ~HasLoop(loops', monitored_repos'[k])
          /\ UNCHANGED <<loops, monitor_tasks>>
    /\ (~\E c \in Starts : start(c) \/ start_loaded(c)) =>
          \A r \in 1..Len(repos') : HasLoop(loops', r) => HasLoop(loops, r)

\* every monitored repository is polled once the step is over
AllPolled == \A k \in RepoKeys : monitored_repos'[k] # 0 => Polling(loops', monitored_repos'[k])

\* C27, as stated: add_repo persists a record with an empty processed set and
\* creates no polling task, a repository added while the monitor runs gets no
\* task before a start() call, and every start() call that returns leaves every
\* monitored repository polled
C27_NextStartPolls ==
    [][/\ AddOnlyRegisters
       /\ \A c \in Starts :
             ((start(c) \/ start_loaded(c)) /\ starts'[c] = "returned") => AllPolled]_vars

\* C27, amended: add_repo persists a record with an empty processed set and
\* creates no polling task, a repository added while the monitor runs gets no
\* task before a start() call, a start() call made while the monitor runs
\* changes nothing, and a start() call made while the monitor does not run
\* leaves every monitored repository polled when it returns
C27_StartWhenStoppedPolls ==
    [][/\ AddOnlyRegisters
       /\ \A c \in Starts :
             /\ (start(c) /\ running) => UNCHANGED <<loops, monitor_tasks, running>>
             /\ (((start(c) /\ ~running) \/ start_loaded(c)) /\ starts'[c] = "returned")
                   => AllPolled]_vars

\* a second object was added after the tasks of the first start() were made,
\* the monitor was stopped, and the second start() polls both objects: the
\* later one has been fetched for
C27_Witness ==
    /\ running
    /\ \A c \in Starts : starts[c] = "returned"
    /\ Len(repos) = 2 /\ monitored_repos[1] = 1 /\ monitored_repos[2] = 2
    /\ Len(loops) = 3
    /\ loops[1].repo = 1 /\ loops[1].pc = "cancelled"
    /\ Polling(loops, 1) /\ Polling(loops, 2)
    /\ fetched[2] # <<>>

\* the polling tasks of the repository key that can still run
LiveLoops(k) == {l \in 1..Len(loops) : Live(l) /\ repos[loops[l].repo].key = k}

\* C28: under any interleaving of start(), stop() and add_repo(), no
\* repository has more than one live polling loop
C28_OneLoopPerRepo == \A k \in RepoKeys : Cardinality(LiveLoops(k)) <= 1

\* C29: stop() clears the running flag and cancels every polling loop that
\* start() has spawned; when it returns the task list is empty; and no loop
\* spawned before a stop() call fetches, calls a callback or persists after it
C29_StopCancelsAll ==
    [][/\ stop => (~running' /\ \A l \in 1..Len(loops) : loops'[l].pc \in {"done", "cancelled"})
       /\ ((stop /\ stops'.pc = "idle") \/ stop_gathered) => monitor_tasks' = <<>>
       /\ \A l \in 1..stops.before :
             loops'[l] # loops[l] => loops'[l].pc \in {"done", "cancelled"}]_vars

\* the callers whose SET has reached Redis
Writers == {c \in Callers : callers[c].wrote /\ callers[c].op \in {"update", "cancel"}}

\* C31: update is a read-modify-write with no lock: the save of an update
\* stores the record built from what its own get returned, whatever the store
\* holds by then, so that its log is the log that was read plus its own line;
\* and once a save has been made the stored record is the record of a save
C31_LastWriterWins ==
    /\ [][\A c \in Callers : update_save(c) =>
             /\ store'[1] = callers[c].task
             /\ store'[1][1].logs =
                   Append(callers[c].read[1].logs,
                          LogLine(callers[c].task[1].updated_at, callers[c].args.log[1]))]_vars
    /\ []((Writers # {} /\ store[1] # None) => \E c \in Writers : store[1] = callers[c].task)

\* two update(id, log=...) calls with different lines have both read the same
\* record and both returned, and the stored log holds one line only
C31_Witness ==
    /\ callers[1].pc = "returned" /\ callers[2].pc = "returned"
    /\ callers[1].wrote /\ callers[2].wrote
    /\ callers[1].read # None /\ callers[1].read = callers[2].read
    /\ callers[1].args.log = Some("a") /\ callers[2].args.log = Some("b")
    /\ store[1] # None
    /\ Len(store[1][1].logs) = Len(callers[1].read[1].logs) + 1

\* the delete() calls that have returned
Deleted == {c \in Callers : callers[c].op = "delete" /\ callers[c].pc = "returned"}

\* C34: once a delete(id) call has returned, get(id) finds no record, whatever
\* update or cancel calls on the id were in flight; no deleted record is back
\* in the store without its index entry
C34_DeletedStaysAbsent ==
    \A c \in Deleted : /\ get(callers[c].task_id) = None
                       /\ ~(store[callers[c].task_id] # None /\ callers[c].task_id \notin index)

\* the terminal payload of a record
Outcome(task) ==
    [status |-> task.status, progress |-> task.progress, result |-> task.result,
     error |-> task.error]

\* C35: the write of a cancel call never replaces a stored record that is
\* terminal: its status, progress, result and error stay as they are
C35_CancelKeepsTerminal ==
    [][\A c \in Callers :
          (/\ cancel_save(c)
           /\ store[callers[c].task_id] # None
           /\ store[callers[c].task_id][1].status \in TerminalStatuses)
             => Outcome(store'[callers[c].task_id][1]) = Outcome(store[callers[c].task_id][1])]_vars

\* the ids whose stored record is active
ActiveIds == {i \in Ids : store[i] # None /\ is_active(store[i][1])}

\* C36: cleanup_old_tasks removes no task whose stored status is pending,
\* running or reviewing, whatever max_age it is given
C36_CleanupSparesActive ==
    [][\A h \in AgeArgs :
          CleanupOldTasks(h) => \A i \in ActiveIds : store'[i] = store[i] /\ (i \in index => i \in index')]_vars

\* the processed set of the object registered under the key, and of its
\* persisted record
Processed(objects, entries, k) == objects[entries[k]].processed_issues
Persisted(records, k) == records[k][1].processed_issues

\* C32: while a repository key stays registered, the processed set of its
\* entry and of its persisted record never lose an element, in any step of
\* add_repo, start, stop or a poll cycle
C32_ProcessedGrows ==
    [][\A k \in RepoKeys :
          (~remove_repo(k) /\ monitored_repos[k] # 0 /\ monitored_repos'[k] # 0)
             => /\ Processed(repos, monitored_repos, k) \subseteq Processed(repos', monitored_repos', k)
                /\ (saved[k] # None /\ saved'[k] # None)
                      => Persisted(saved, k) \subseteq Persisted(saved', k)]_vars

\* the key was registered and its entry has been removed
Removed(objects, entries, k) ==
    entries[k] = 0 /\ \E r \in 1..Len(objects) : objects[r].key = k

\* C37: once remove_repo has returned true for a repository, and until it is
\* registered again, no callback is invoked for it and it has no persisted
\* record, also when a polling loop was running for it at the removal
C37_RemovedIsSilent ==
    [][\A k \in RepoKeys :
          Removed(repos', monitored_repos', k)
             => /\ saved'[k] = None
                /\ Removed(repos, monitored_repos, k) => calls'[k] = calls[k]]_vars

\* the issue can no longer reach the callbacks: it was opened before the
\* last_checked of the polled object, so that no later request returns it, it
\* is not in the processed set and it is not among the items of the cycle
Lost(k, i) ==
    LET repo == repos[monitored_repos[k]]
        number == FirstIssue + i - 1
    IN  /\ github[k][i] < repo.last_checked
        /\ number \notin repo.processed_issues
        /\ \A l \in 1..Len(loops) :
              (loops[l].repo = monitored_repos[k] /\ Live(l))
                 => \A j \in 1..Len(loops[l].todo) : loops[l].todo[j].number # number

\* C38: no issue opened while the loop of its repository is live is lost:
\* every such issue is passed to the callbacks or is still returned by a later
\* request, also after cycles whose request failed or whose callbacks took time
C38_NoItemLost ==
    \A k \in RepoKeys :
       monitored_repos[k] # 0 => \A i \in 1..Len(github[k]) : ~Lost(k, i)

\* a send to a socket is in progress: a job is suspended in send_json
Sending(j) == jobs[j].pc = "sending"

\* C33: the registry lock is never held while a send is in progress, so that
\* connect, disconnect and the snapshot of another broadcast are not delayed
C33_NoLockDuringSend ==
    (\E j \in Jobs : Sending(j)) => lock = 0

\* a broadcast is sending to the sockets of its snapshot and the lock is free
C33_Witness ==
    \E j \in Broadcasts : Sending(j) /\ Len(jobs[j].todo) > 0 /\ lock = 0

\* C39: a message that a connect() call sends (init or error) is delivered to
\* the connecting socket alone: no other socket receives anything in a step of
\* the send_personal_message of a connect job
C39_ConnectMessagesArePersonal ==
    [][\A j \in Sockets :
          send_personal_message(j) => \A s \in Sockets \ {j} : inbox'[s] = inbox[s]]_vars

\* C40: the first message a connected socket receives is its init snapshot: no
\* progress, status, log or error broadcast is delivered to it before, however
\* connect interleaves with the broadcasts for the task id
C40_InitComesFirst ==
    [][\A j \in Broadcasts :
          send_personal_message(j) =>
             \A s \in Sockets :
                inbox'[s] # inbox[s] => \E k \in 1..Len(inbox[s]) : inbox[s][k].type = "init"]_vars

====
